---- MODULE Spec2Model ----
\* Model of the Innovation Engine assistant (package assistant): the
\* AssistantModel state, its bubbletea Update handler, handleQuery and the
\* rule-based generateResponse.  Go strings are sequences of one-character
\* strings; a rune outside ASCII, and the backquote, is the single element
\* "U+XXXX".
EXTENDS Integers, Sequences, FiniteSets, TLC

\* ---------------------------------------------------------------- bounds
\* Longest transcript the model lets handleQuery build.
MaxTurns == 5
\* Longest Input Buffer the model lets the user type.
MaxInput == 2
\* Most Paste commands of the textarea under way at a time.
MaxPastes == 1
\* Most newlines the model lets the user add to a full Input Buffer.
MaxNewlines == 2

\* ------------------------------------------------------ program constants
CharLimit == 500
DefaultViewportWidth == 80
DefaultViewportHeight == 20
DefaultTextareaWidth == 40
\* textarea.New(): the MaxHeight of a new textarea, in lines
DefaultTextareaMaxHeight == 99

\* ----------------------------------------------------------- the state
VARIABLES
    responses,    \* m.responses: the transcript, one string per Turn
    textarea,     \* m.textarea: value (the Input Buffer), width, CharLimit,
                  \* MaxHeight, Err
    viewport,     \* m.viewport: content, lines (their number), YOffset, Width, Height
    width,        \* m.width
    height,       \* m.height
    environment,  \* m.environment
    ready,        \* m.ready
    cmd,          \* the tea.Cmd the last Init/Update returned
    unicodeVersion, \* the Unicode version of the case tables of package
                  \* unicode in the Go release the program was built with
    pasting,      \* the Paste commands of the textarea that Update returned
                  \* in a batch and whose message is under way
    loop,         \* the event loop: "running"; "quitting" once an Update has
                  \* returned tea.Quit and its quit message is under way;
                  \* "closed" once that message was received
    matched,      \* the case of the key switch the last Update took
    hist,         \* history: Sends counted while no Clear/QuickAction occurred,
                  \* and the env argument NewAssistantModel was called with
    call          \* direct calls of generateResponse: of query, up to MaxCalls
                  \* times, and of other, a query in another letter case

vars == <<responses, textarea, viewport, width, height, environment, ready,
          unicodeVersion, cmd, pasting, loop, matched, hist, call>>

\* ------------------------------------------------------------ string ops
\* unicode.ToLower: <<rune, its lower case>> for every rune that has a
\* different lower case (the simple case mapping, Unicode 13.0)
LowerPairs ==
    {<<"A","a">>, <<"B","b">>, <<"C","c">>, <<"D","d">>, <<"E","e">>,
     <<"F","f">>, <<"G","g">>, <<"H","h">>, <<"I","i">>, <<"J","j">>,
     <<"K","k">>, <<"L","l">>, <<"M","m">>, <<"N","n">>, <<"O","o">>,
     <<"P","p">>, <<"Q","q">>, <<"R","r">>, <<"S","s">>, <<"T","t">>,
     <<"U","u">>, <<"V","v">>, <<"W","w">>, <<"X","x">>, <<"Y","y">>,
     <<"Z","z">>, <<"U+00C0","U+00E0">>, <<"U+00C1","U+00E1">>,
     <<"U+00C2","U+00E2">>, <<"U+00C3","U+00E3">>, <<"U+00C4","U+00E4">>,
     <<"U+00C5","U+00E5">>, <<"U+00C6","U+00E6">>, <<"U+00C7","U+00E7">>,
     <<"U+00C8","U+00E8">>, <<"U+00C9","U+00E9">>, <<"U+00CA","U+00EA">>,
     <<"U+00CB","U+00EB">>, <<"U+00CC","U+00EC">>, <<"U+00CD","U+00ED">>,
     <<"U+00CE","U+00EE">>, <<"U+00CF","U+00EF">>, <<"U+00D0","U+00F0">>,
     <<"U+00D1","U+00F1">>, <<"U+00D2","U+00F2">>, <<"U+00D3","U+00F3">>,
     <<"U+00D4","U+00F4">>, <<"U+00D5","U+00F5">>, <<"U+00D6","U+00F6">>,
     <<"U+00D8","U+00F8">>, <<"U+00D9","U+00F9">>, <<"U+00DA","U+00FA">>,
     <<"U+00DB","U+00FB">>, <<"U+00DC","U+00FC">>, <<"U+00DD","U+00FD">>,
     <<"U+00DE","U+00FE">>, <<"U+0100","U+0101">>, <<"U+0102","U+0103">>,
     <<"U+0104","U+0105">>, <<"U+0106","U+0107">>, <<"U+0108","U+0109">>,
     <<"U+010A","U+010B">>, <<"U+010C","U+010D">>, <<"U+010E","U+010F">>,
     <<"U+0110","U+0111">>, <<"U+0112","U+0113">>, <<"U+0114","U+0115">>,
     <<"U+0116","U+0117">>, <<"U+0118","U+0119">>, <<"U+011A","U+011B">>,
     <<"U+011C","U+011D">>, <<"U+011E","U+011F">>, <<"U+0120","U+0121">>,
     <<"U+0122","U+0123">>, <<"U+0124","U+0125">>, <<"U+0126","U+0127">>,
     <<"U+0128","U+0129">>, <<"U+012A","U+012B">>, <<"U+012C","U+012D">>,
     <<"U+012E","U+012F">>, <<"U+0130","i">>, <<"U+0132","U+0133">>,
     <<"U+0134","U+0135">>, <<"U+0136","U+0137">>, <<"U+0139","U+013A">>,
     <<"U+013B","U+013C">>, <<"U+013D","U+013E">>, <<"U+013F","U+0140">>,
     <<"U+0141","U+0142">>, <<"U+0143","U+0144">>, <<"U+0145","U+0146">>,
     <<"U+0147","U+0148">>, <<"U+014A","U+014B">>, <<"U+014C","U+014D">>,
     <<"U+014E","U+014F">>, <<"U+0150","U+0151">>, <<"U+0152","U+0153">>,
     <<"U+0154","U+0155">>, <<"U+0156","U+0157">>, <<"U+0158","U+0159">>,
     <<"U+015A","U+015B">>, <<"U+015C","U+015D">>, <<"U+015E","U+015F">>,
     <<"U+0160","U+0161">>, <<"U+0162","U+0163">>, <<"U+0164","U+0165">>,
     <<"U+0166","U+0167">>, <<"U+0168","U+0169">>, <<"U+016A","U+016B">>,
     <<"U+016C","U+016D">>, <<"U+016E","U+016F">>, <<"U+0170","U+0171">>,
     <<"U+0172","U+0173">>, <<"U+0174","U+0175">>, <<"U+0176","U+0177">>,
     <<"U+0178","U+00FF">>, <<"U+0179","U+017A">>, <<"U+017B","U+017C">>,
     <<"U+017D","U+017E">>, <<"U+0181","U+0253">>, <<"U+0182","U+0183">>,
     <<"U+0184","U+0185">>, <<"U+0186","U+0254">>, <<"U+0187","U+0188">>,
     <<"U+0189","U+0256">>, <<"U+018A","U+0257">>, <<"U+018B","U+018C">>,
     <<"U+018E","U+01DD">>, <<"U+018F","U+0259">>, <<"U+0190","U+025B">>,
     <<"U+0191","U+0192">>, <<"U+0193","U+0260">>, <<"U+0194","U+0263">>,
     <<"U+0196","U+0269">>, <<"U+0197","U+0268">>, <<"U+0198","U+0199">>,
     <<"U+019C","U+026F">>, <<"U+019D","U+0272">>, <<"U+019F","U+0275">>,
     <<"U+01A0","U+01A1">>, <<"U+01A2","U+01A3">>, <<"U+01A4","U+01A5">>,
     <<"U+01A6","U+0280">>, <<"U+01A7","U+01A8">>, <<"U+01A9","U+0283">>,
     <<"U+01AC","U+01AD">>, <<"U+01AE","U+0288">>, <<"U+01AF","U+01B0">>,
     <<"U+01B1","U+028A">>, <<"U+01B2","U+028B">>, <<"U+01B3","U+01B4">>,
     <<"U+01B5","U+01B6">>, <<"U+01B7","U+0292">>, <<"U+01B8","U+01B9">>,
     <<"U+01BC","U+01BD">>, <<"U+01C4","U+01C6">>, <<"U+01C5","U+01C6">>,
     <<"U+01C7","U+01C9">>, <<"U+01C8","U+01C9">>, <<"U+01CA","U+01CC">>,
     <<"U+01CB","U+01CC">>, <<"U+01CD","U+01CE">>, <<"U+01CF","U+01D0">>,
     <<"U+01D1","U+01D2">>, <<"U+01D3","U+01D4">>, <<"U+01D5","U+01D6">>,
     <<"U+01D7","U+01D8">>, <<"U+01D9","U+01DA">>, <<"U+01DB","U+01DC">>,
     <<"U+01DE","U+01DF">>, <<"U+01E0","U+01E1">>, <<"U+01E2","U+01E3">>,
     <<"U+01E4","U+01E5">>, <<"U+01E6","U+01E7">>, <<"U+01E8","U+01E9">>,
     <<"U+01EA","U+01EB">>, <<"U+01EC","U+01ED">>, <<"U+01EE","U+01EF">>,
     <<"U+01F1","U+01F3">>, <<"U+01F2","U+01F3">>, <<"U+01F4","U+01F5">>,
     <<"U+01F6","U+0195">>, <<"U+01F7","U+01BF">>, <<"U+01F8","U+01F9">>,
     <<"U+01FA","U+01FB">>, <<"U+01FC","U+01FD">>, <<"U+01FE","U+01FF">>,
     <<"U+0200","U+0201">>, <<"U+0202","U+0203">>, <<"U+0204","U+0205">>,
     <<"U+0206","U+0207">>, <<"U+0208","U+0209">>, <<"U+020A","U+020B">>,
     <<"U+020C","U+020D">>, <<"U+020E","U+020F">>, <<"U+0210","U+0211">>,
     <<"U+0212","U+0213">>, <<"U+0214","U+0215">>, <<"U+0216","U+0217">>,
     <<"U+0218","U+0219">>, <<"U+021A","U+021B">>, <<"U+021C","U+021D">>,
     <<"U+021E","U+021F">>, <<"U+0220","U+019E">>, <<"U+0222","U+0223">>,
     <<"U+0224","U+0225">>, <<"U+0226","U+0227">>, <<"U+0228","U+0229">>,
     <<"U+022A","U+022B">>, <<"U+022C","U+022D">>, <<"U+022E","U+022F">>,
     <<"U+0230","U+0231">>, <<"U+0232","U+0233">>, <<"U+023A","U+2C65">>,
     <<"U+023B","U+023C">>, <<"U+023D","U+019A">>, <<"U+023E","U+2C66">>,
     <<"U+0241","U+0242">>, <<"U+0243","U+0180">>, <<"U+0244","U+0289">>,
     <<"U+0245","U+028C">>, <<"U+0246","U+0247">>, <<"U+0248","U+0249">>,
     <<"U+024A","U+024B">>, <<"U+024C","U+024D">>, <<"U+024E","U+024F">>,
     <<"U+0370","U+0371">>, <<"U+0372","U+0373">>, <<"U+0376","U+0377">>,
     <<"U+037F","U+03F3">>, <<"U+0386","U+03AC">>, <<"U+0388","U+03AD">>,
     <<"U+0389","U+03AE">>, <<"U+038A","U+03AF">>, <<"U+038C","U+03CC">>,
     <<"U+038E","U+03CD">>, <<"U+038F","U+03CE">>, <<"U+0391","U+03B1">>,
     <<"U+0392","U+03B2">>, <<"U+0393","U+03B3">>, <<"U+0394","U+03B4">>,
     <<"U+0395","U+03B5">>, <<"U+0396","U+03B6">>, <<"U+0397","U+03B7">>,
     <<"U+0398","U+03B8">>, <<"U+0399","U+03B9">>, <<"U+039A","U+03BA">>,
     <<"U+039B","U+03BB">>, <<"U+039C","U+03BC">>, <<"U+039D","U+03BD">>,
     <<"U+039E","U+03BE">>, <<"U+039F","U+03BF">>, <<"U+03A0","U+03C0">>,
     <<"U+03A1","U+03C1">>, <<"U+03A3","U+03C3">>, <<"U+03A4","U+03C4">>,
     <<"U+03A5","U+03C5">>, <<"U+03A6","U+03C6">>, <<"U+03A7","U+03C7">>,
     <<"U+03A8","U+03C8">>, <<"U+03A9","U+03C9">>, <<"U+03AA","U+03CA">>,
     <<"U+03AB","U+03CB">>, <<"U+03CF","U+03D7">>, <<"U+03D8","U+03D9">>,
     <<"U+03DA","U+03DB">>, <<"U+03DC","U+03DD">>, <<"U+03DE","U+03DF">>,
     <<"U+03E0","U+03E1">>, <<"U+03E2","U+03E3">>, <<"U+03E4","U+03E5">>,
     <<"U+03E6","U+03E7">>, <<"U+03E8","U+03E9">>, <<"U+03EA","U+03EB">>,
     <<"U+03EC","U+03ED">>, <<"U+03EE","U+03EF">>, <<"U+03F4","U+03B8">>,
     <<"U+03F7","U+03F8">>, <<"U+03F9","U+03F2">>, <<"U+03FA","U+03FB">>,
     <<"U+03FD","U+037B">>, <<"U+03FE","U+037C">>, <<"U+03FF","U+037D">>,
     <<"U+0400","U+0450">>, <<"U+0401","U+0451">>, <<"U+0402","U+0452">>,
     <<"U+0403","U+0453">>, <<"U+0404","U+0454">>, <<"U+0405","U+0455">>,
     <<"U+0406","U+0456">>, <<"U+0407","U+0457">>, <<"U+0408","U+0458">>,
     <<"U+0409","U+0459">>, <<"U+040A","U+045A">>, <<"U+040B","U+045B">>,
     <<"U+040C","U+045C">>, <<"U+040D","U+045D">>, <<"U+040E","U+045E">>,
     <<"U+040F","U+045F">>, <<"U+0410","U+0430">>, <<"U+0411","U+0431">>,
     <<"U+0412","U+0432">>, <<"U+0413","U+0433">>, <<"U+0414","U+0434">>,
     <<"U+0415","U+0435">>, <<"U+0416","U+0436">>, <<"U+0417","U+0437">>,
     <<"U+0418","U+0438">>, <<"U+0419","U+0439">>, <<"U+041A","U+043A">>,
     <<"U+041B","U+043B">>, <<"U+041C","U+043C">>, <<"U+041D","U+043D">>,
     <<"U+041E","U+043E">>, <<"U+041F","U+043F">>, <<"U+0420","U+0440">>,
     <<"U+0421","U+0441">>, <<"U+0422","U+0442">>, <<"U+0423","U+0443">>,
     <<"U+0424","U+0444">>, <<"U+0425","U+0445">>, <<"U+0426","U+0446">>,
     <<"U+0427","U+0447">>, <<"U+0428","U+0448">>, <<"U+0429","U+0449">>,
     <<"U+042A","U+044A">>, <<"U+042B","U+044B">>, <<"U+042C","U+044C">>,
     <<"U+042D","U+044D">>, <<"U+042E","U+044E">>, <<"U+042F","U+044F">>,
     <<"U+0460","U+0461">>, <<"U+0462","U+0463">>, <<"U+0464","U+0465">>,
     <<"U+0466","U+0467">>, <<"U+0468","U+0469">>, <<"U+046A","U+046B">>,
     <<"U+046C","U+046D">>, <<"U+046E","U+046F">>, <<"U+0470","U+0471">>,
     <<"U+0472","U+0473">>, <<"U+0474","U+0475">>, <<"U+0476","U+0477">>,
     <<"U+0478","U+0479">>, <<"U+047A","U+047B">>, <<"U+047C","U+047D">>,
     <<"U+047E","U+047F">>, <<"U+0480","U+0481">>, <<"U+048A","U+048B">>,
     <<"U+048C","U+048D">>, <<"U+048E","U+048F">>, <<"U+0490","U+0491">>,
     <<"U+0492","U+0493">>, <<"U+0494","U+0495">>, <<"U+0496","U+0497">>,
     <<"U+0498","U+0499">>, <<"U+049A","U+049B">>, <<"U+049C","U+049D">>,
     <<"U+049E","U+049F">>, <<"U+04A0","U+04A1">>, <<"U+04A2","U+04A3">>,
     <<"U+04A4","U+04A5">>, <<"U+04A6","U+04A7">>, <<"U+04A8","U+04A9">>,
     <<"U+04AA","U+04AB">>, <<"U+04AC","U+04AD">>, <<"U+04AE","U+04AF">>,
     <<"U+04B0","U+04B1">>, <<"U+04B2","U+04B3">>, <<"U+04B4","U+04B5">>,
     <<"U+04B6","U+04B7">>, <<"U+04B8","U+04B9">>, <<"U+04BA","U+04BB">>,
     <<"U+04BC","U+04BD">>, <<"U+04BE","U+04BF">>, <<"U+04C0","U+04CF">>,
     <<"U+04C1","U+04C2">>, <<"U+04C3","U+04C4">>, <<"U+04C5","U+04C6">>,
     <<"U+04C7","U+04C8">>, <<"U+04C9","U+04CA">>, <<"U+04CB","U+04CC">>,
     <<"U+04CD","U+04CE">>, <<"U+04D0","U+04D1">>, <<"U+04D2","U+04D3">>,
     <<"U+04D4","U+04D5">>, <<"U+04D6","U+04D7">>, <<"U+04D8","U+04D9">>,
     <<"U+04DA","U+04DB">>, <<"U+04DC","U+04DD">>, <<"U+04DE","U+04DF">>,
     <<"U+04E0","U+04E1">>, <<"U+04E2","U+04E3">>, <<"U+04E4","U+04E5">>,
     <<"U+04E6","U+04E7">>, <<"U+04E8","U+04E9">>, <<"U+04EA","U+04EB">>,
     <<"U+04EC","U+04ED">>, <<"U+04EE","U+04EF">>, <<"U+04F0","U+04F1">>,
     <<"U+04F2","U+04F3">>, <<"U+04F4","U+04F5">>, <<"U+04F6","U+04F7">>,
     <<"U+04F8","U+04F9">>, <<"U+04FA","U+04FB">>, <<"U+04FC","U+04FD">>,
     <<"U+04FE","U+04FF">>, <<"U+0500","U+0501">>, <<"U+0502","U+0503">>,
     <<"U+0504","U+0505">>, <<"U+0506","U+0507">>, <<"U+0508","U+0509">>,
     <<"U+050A","U+050B">>, <<"U+050C","U+050D">>, <<"U+050E","U+050F">>,
     <<"U+0510","U+0511">>, <<"U+0512","U+0513">>, <<"U+0514","U+0515">>,
     <<"U+0516","U+0517">>, <<"U+0518","U+0519">>, <<"U+051A","U+051B">>,
     <<"U+051C","U+051D">>, <<"U+051E","U+051F">>, <<"U+0520","U+0521">>,
     <<"U+0522","U+0523">>, <<"U+0524","U+0525">>, <<"U+0526","U+0527">>,
     <<"U+0528","U+0529">>, <<"U+052A","U+052B">>, <<"U+052C","U+052D">>,
     <<"U+052E","U+052F">>, <<"U+0531","U+0561">>, <<"U+0532","U+0562">>,
     <<"U+0533","U+0563">>, <<"U+0534","U+0564">>, <<"U+0535","U+0565">>,
     <<"U+0536","U+0566">>, <<"U+0537","U+0567">>, <<"U+0538","U+0568">>,
     <<"U+0539","U+0569">>, <<"U+053A","U+056A">>, <<"U+053B","U+056B">>,
     <<"U+053C","U+056C">>, <<"U+053D","U+056D">>, <<"U+053E","U+056E">>,
     <<"U+053F","U+056F">>, <<"U+0540","U+0570">>, <<"U+0541","U+0571">>,
     <<"U+0542","U+0572">>, <<"U+0543","U+0573">>, <<"U+0544","U+0574">>,
     <<"U+0545","U+0575">>, <<"U+0546","U+0576">>, <<"U+0547","U+0577">>,
     <<"U+0548","U+0578">>, <<"U+0549","U+0579">>, <<"U+054A","U+057A">>,
     <<"U+054B","U+057B">>, <<"U+054C","U+057C">>, <<"U+054D","U+057D">>,
     <<"U+054E","U+057E">>, <<"U+054F","U+057F">>, <<"U+0550","U+0580">>,
     <<"U+0551","U+0581">>, <<"U+0552","U+0582">>, <<"U+0553","U+0583">>,
     <<"U+0554","U+0584">>, <<"U+0555","U+0585">>, <<"U+0556","U+0586">>,
     <<"U+10A0","U+2D00">>, <<"U+10A1","U+2D01">>, <<"U+10A2","U+2D02">>,
     <<"U+10A3","U+2D03">>, <<"U+10A4","U+2D04">>, <<"U+10A5","U+2D05">>,
     <<"U+10A6","U+2D06">>, <<"U+10A7","U+2D07">>, <<"U+10A8","U+2D08">>,
     <<"U+10A9","U+2D09">>, <<"U+10AA","U+2D0A">>, <<"U+10AB","U+2D0B">>,
     <<"U+10AC","U+2D0C">>, <<"U+10AD","U+2D0D">>, <<"U+10AE","U+2D0E">>,
     <<"U+10AF","U+2D0F">>, <<"U+10B0","U+2D10">>, <<"U+10B1","U+2D11">>,
     <<"U+10B2","U+2D12">>, <<"U+10B3","U+2D13">>, <<"U+10B4","U+2D14">>,
     <<"U+10B5","U+2D15">>, <<"U+10B6","U+2D16">>, <<"U+10B7","U+2D17">>,
     <<"U+10B8","U+2D18">>, <<"U+10B9","U+2D19">>, <<"U+10BA","U+2D1A">>,
     <<"U+10BB","U+2D1B">>, <<"U+10BC","U+2D1C">>, <<"U+10BD","U+2D1D">>,
     <<"U+10BE","U+2D1E">>, <<"U+10BF","U+2D1F">>, <<"U+10C0","U+2D20">>,
     <<"U+10C1","U+2D21">>, <<"U+10C2","U+2D22">>, <<"U+10C3","U+2D23">>,
     <<"U+10C4","U+2D24">>, <<"U+10C5","U+2D25">>, <<"U+10C7","U+2D27">>,
     <<"U+10CD","U+2D2D">>, <<"U+13A0","U+AB70">>, <<"U+13A1","U+AB71">>,
     <<"U+13A2","U+AB72">>, <<"U+13A3","U+AB73">>, <<"U+13A4","U+AB74">>,
     <<"U+13A5","U+AB75">>, <<"U+13A6","U+AB76">>, <<"U+13A7","U+AB77">>,
     <<"U+13A8","U+AB78">>, <<"U+13A9","U+AB79">>, <<"U+13AA","U+AB7A">>,
     <<"U+13AB","U+AB7B">>, <<"U+13AC","U+AB7C">>, <<"U+13AD","U+AB7D">>,
     <<"U+13AE","U+AB7E">>, <<"U+13AF","U+AB7F">>, <<"U+13B0","U+AB80">>,
     <<"U+13B1","U+AB81">>, <<"U+13B2","U+AB82">>, <<"U+13B3","U+AB83">>,
     <<"U+13B4","U+AB84">>, <<"U+13B5","U+AB85">>, <<"U+13B6","U+AB86">>,
     <<"U+13B7","U+AB87">>, <<"U+13B8","U+AB88">>, <<"U+13B9","U+AB89">>,
     <<"U+13BA","U+AB8A">>, <<"U+13BB","U+AB8B">>, <<"U+13BC","U+AB8C">>,
     <<"U+13BD","U+AB8D">>, <<"U+13BE","U+AB8E">>, <<"U+13BF","U+AB8F">>,
     <<"U+13C0","U+AB90">>, <<"U+13C1","U+AB91">>, <<"U+13C2","U+AB92">>,
     <<"U+13C3","U+AB93">>, <<"U+13C4","U+AB94">>, <<"U+13C5","U+AB95">>,
     <<"U+13C6","U+AB96">>, <<"U+13C7","U+AB97">>, <<"U+13C8","U+AB98">>,
     <<"U+13C9","U+AB99">>, <<"U+13CA","U+AB9A">>, <<"U+13CB","U+AB9B">>,
     <<"U+13CC","U+AB9C">>, <<"U+13CD","U+AB9D">>, <<"U+13CE","U+AB9E">>,
     <<"U+13CF","U+AB9F">>, <<"U+13D0","U+ABA0">>, <<"U+13D1","U+ABA1">>,
     <<"U+13D2","U+ABA2">>, <<"U+13D3","U+ABA3">>, <<"U+13D4","U+ABA4">>,
     <<"U+13D5","U+ABA5">>, <<"U+13D6","U+ABA6">>, <<"U+13D7","U+ABA7">>,
     <<"U+13D8","U+ABA8">>, <<"U+13D9","U+ABA9">>, <<"U+13DA","U+ABAA">>,
     <<"U+13DB","U+ABAB">>, <<"U+13DC","U+ABAC">>, <<"U+13DD","U+ABAD">>,
     <<"U+13DE","U+ABAE">>, <<"U+13DF","U+ABAF">>, <<"U+13E0","U+ABB0">>,
     <<"U+13E1","U+ABB1">>, <<"U+13E2","U+ABB2">>, <<"U+13E3","U+ABB3">>,
     <<"U+13E4","U+ABB4">>, <<"U+13E5","U+ABB5">>, <<"U+13E6","U+ABB6">>,
     <<"U+13E7","U+ABB7">>, <<"U+13E8","U+ABB8">>, <<"U+13E9","U+ABB9">>,
     <<"U+13EA","U+ABBA">>, <<"U+13EB","U+ABBB">>, <<"U+13EC","U+ABBC">>,
     <<"U+13ED","U+ABBD">>, <<"U+13EE","U+ABBE">>, <<"U+13EF","U+ABBF">>,
     <<"U+13F0","U+13F8">>, <<"U+13F1","U+13F9">>, <<"U+13F2","U+13FA">>,
     <<"U+13F3","U+13FB">>, <<"U+13F4","U+13FC">>, <<"U+13F5","U+13FD">>,
     <<"U+1C90","U+10D0">>, <<"U+1C91","U+10D1">>, <<"U+1C92","U+10D2">>,
     <<"U+1C93","U+10D3">>, <<"U+1C94","U+10D4">>, <<"U+1C95","U+10D5">>,
     <<"U+1C96","U+10D6">>, <<"U+1C97","U+10D7">>, <<"U+1C98","U+10D8">>,
     <<"U+1C99","U+10D9">>, <<"U+1C9A","U+10DA">>, <<"U+1C9B","U+10DB">>,
     <<"U+1C9C","U+10DC">>, <<"U+1C9D","U+10DD">>, <<"U+1C9E","U+10DE">>,
     <<"U+1C9F","U+10DF">>, <<"U+1CA0","U+10E0">>, <<"U+1CA1","U+10E1">>,
     <<"U+1CA2","U+10E2">>, <<"U+1CA3","U+10E3">>, <<"U+1CA4","U+10E4">>,
     <<"U+1CA5","U+10E5">>, <<"U+1CA6","U+10E6">>, <<"U+1CA7","U+10E7">>,
     <<"U+1CA8","U+10E8">>, <<"U+1CA9","U+10E9">>, <<"U+1CAA","U+10EA">>,
     <<"U+1CAB","U+10EB">>, <<"U+1CAC","U+10EC">>, <<"U+1CAD","U+10ED">>,
     <<"U+1CAE","U+10EE">>, <<"U+1CAF","U+10EF">>, <<"U+1CB0","U+10F0">>,
     <<"U+1CB1","U+10F1">>, <<"U+1CB2","U+10F2">>, <<"U+1CB3","U+10F3">>,
     <<"U+1CB4","U+10F4">>, <<"U+1CB5","U+10F5">>, <<"U+1CB6","U+10F6">>,
     <<"U+1CB7","U+10F7">>, <<"U+1CB8","U+10F8">>, <<"U+1CB9","U+10F9">>,
     <<"U+1CBA","U+10FA">>, <<"U+1CBD","U+10FD">>, <<"U+1CBE","U+10FE">>,
     <<"U+1CBF","U+10FF">>, <<"U+1E00","U+1E01">>, <<"U+1E02","U+1E03">>,
     <<"U+1E04","U+1E05">>, <<"U+1E06","U+1E07">>, <<"U+1E08","U+1E09">>,
     <<"U+1E0A","U+1E0B">>, <<"U+1E0C","U+1E0D">>, <<"U+1E0E","U+1E0F">>,
     <<"U+1E10","U+1E11">>, <<"U+1E12","U+1E13">>, <<"U+1E14","U+1E15">>,
     <<"U+1E16","U+1E17">>, <<"U+1E18","U+1E19">>, <<"U+1E1A","U+1E1B">>,
     <<"U+1E1C","U+1E1D">>, <<"U+1E1E","U+1E1F">>, <<"U+1E20","U+1E21">>,
     <<"U+1E22","U+1E23">>, <<"U+1E24","U+1E25">>, <<"U+1E26","U+1E27">>,
     <<"U+1E28","U+1E29">>, <<"U+1E2A","U+1E2B">>, <<"U+1E2C","U+1E2D">>,
     <<"U+1E2E","U+1E2F">>, <<"U+1E30","U+1E31">>, <<"U+1E32","U+1E33">>,
     <<"U+1E34","U+1E35">>, <<"U+1E36","U+1E37">>, <<"U+1E38","U+1E39">>,
     <<"U+1E3A","U+1E3B">>, <<"U+1E3C","U+1E3D">>, <<"U+1E3E","U+1E3F">>,
     <<"U+1E40","U+1E41">>, <<"U+1E42","U+1E43">>, <<"U+1E44","U+1E45">>,
     <<"U+1E46","U+1E47">>, <<"U+1E48","U+1E49">>, <<"U+1E4A","U+1E4B">>,
     <<"U+1E4C","U+1E4D">>, <<"U+1E4E","U+1E4F">>, <<"U+1E50","U+1E51">>,
     <<"U+1E52","U+1E53">>, <<"U+1E54","U+1E55">>, <<"U+1E56","U+1E57">>,
     <<"U+1E58","U+1E59">>, <<"U+1E5A","U+1E5B">>, <<"U+1E5C","U+1E5D">>,
     <<"U+1E5E","U+1E5F">>, <<"U+1E60","U+1E61">>, <<"U+1E62","U+1E63">>,
     <<"U+1E64","U+1E65">>, <<"U+1E66","U+1E67">>, <<"U+1E68","U+1E69">>,
     <<"U+1E6A","U+1E6B">>, <<"U+1E6C","U+1E6D">>, <<"U+1E6E","U+1E6F">>,
     <<"U+1E70","U+1E71">>, <<"U+1E72","U+1E73">>, <<"U+1E74","U+1E75">>,
     <<"U+1E76","U+1E77">>, <<"U+1E78","U+1E79">>, <<"U+1E7A","U+1E7B">>,
     <<"U+1E7C","U+1E7D">>, <<"U+1E7E","U+1E7F">>, <<"U+1E80","U+1E81">>,
     <<"U+1E82","U+1E83">>, <<"U+1E84","U+1E85">>, <<"U+1E86","U+1E87">>,
     <<"U+1E88","U+1E89">>, <<"U+1E8A","U+1E8B">>, <<"U+1E8C","U+1E8D">>,
     <<"U+1E8E","U+1E8F">>, <<"U+1E90","U+1E91">>, <<"U+1E92","U+1E93">>,
     <<"U+1E94","U+1E95">>, <<"U+1E9E","U+00DF">>, <<"U+1EA0","U+1EA1">>,
     <<"U+1EA2","U+1EA3">>, <<"U+1EA4","U+1EA5">>, <<"U+1EA6","U+1EA7">>,
     <<"U+1EA8","U+1EA9">>, <<"U+1EAA","U+1EAB">>, <<"U+1EAC","U+1EAD">>,
     <<"U+1EAE","U+1EAF">>, <<"U+1EB0","U+1EB1">>, <<"U+1EB2","U+1EB3">>,
     <<"U+1EB4","U+1EB5">>, <<"U+1EB6","U+1EB7">>, <<"U+1EB8","U+1EB9">>,
     <<"U+1EBA","U+1EBB">>, <<"U+1EBC","U+1EBD">>, <<"U+1EBE","U+1EBF">>,
     <<"U+1EC0","U+1EC1">>, <<"U+1EC2","U+1EC3">>, <<"U+1EC4","U+1EC5">>,
     <<"U+1EC6","U+1EC7">>, <<"U+1EC8","U+1EC9">>, <<"U+1ECA","U+1ECB">>,
     <<"U+1ECC","U+1ECD">>, <<"U+1ECE","U+1ECF">>, <<"U+1ED0","U+1ED1">>,
     <<"U+1ED2","U+1ED3">>, <<"U+1ED4","U+1ED5">>, <<"U+1ED6","U+1ED7">>,
     <<"U+1ED8","U+1ED9">>, <<"U+1EDA","U+1EDB">>, <<"U+1EDC","U+1EDD">>,
     <<"U+1EDE","U+1EDF">>, <<"U+1EE0","U+1EE1">>, <<"U+1EE2","U+1EE3">>,
     <<"U+1EE4","U+1EE5">>, <<"U+1EE6","U+1EE7">>, <<"U+1EE8","U+1EE9">>,
     <<"U+1EEA","U+1EEB">>, <<"U+1EEC","U+1EED">>, <<"U+1EEE","U+1EEF">>,
     <<"U+1EF0","U+1EF1">>, <<"U+1EF2","U+1EF3">>, <<"U+1EF4","U+1EF5">>,
     <<"U+1EF6","U+1EF7">>, <<"U+1EF8","U+1EF9">>, <<"U+1EFA","U+1EFB">>,
     <<"U+1EFC","U+1EFD">>, <<"U+1EFE","U+1EFF">>, <<"U+1F08","U+1F00">>,
     <<"U+1F09","U+1F01">>, <<"U+1F0A","U+1F02">>, <<"U+1F0B","U+1F03">>,
     <<"U+1F0C","U+1F04">>, <<"U+1F0D","U+1F05">>, <<"U+1F0E","U+1F06">>,
     <<"U+1F0F","U+1F07">>, <<"U+1F18","U+1F10">>, <<"U+1F19","U+1F11">>,
     <<"U+1F1A","U+1F12">>, <<"U+1F1B","U+1F13">>, <<"U+1F1C","U+1F14">>,
     <<"U+1F1D","U+1F15">>, <<"U+1F28","U+1F20">>, <<"U+1F29","U+1F21">>,
     <<"U+1F2A","U+1F22">>, <<"U+1F2B","U+1F23">>, <<"U+1F2C","U+1F24">>,
     <<"U+1F2D","U+1F25">>, <<"U+1F2E","U+1F26">>, <<"U+1F2F","U+1F27">>,
     <<"U+1F38","U+1F30">>, <<"U+1F39","U+1F31">>, <<"U+1F3A","U+1F32">>,
     <<"U+1F3B","U+1F33">>, <<"U+1F3C","U+1F34">>, <<"U+1F3D","U+1F35">>,
     <<"U+1F3E","U+1F36">>, <<"U+1F3F","U+1F37">>, <<"U+1F48","U+1F40">>,
     <<"U+1F49","U+1F41">>, <<"U+1F4A","U+1F42">>, <<"U+1F4B","U+1F43">>,
     <<"U+1F4C","U+1F44">>, <<"U+1F4D","U+1F45">>, <<"U+1F59","U+1F51">>,
     <<"U+1F5B","U+1F53">>, <<"U+1F5D","U+1F55">>, <<"U+1F5F","U+1F57">>,
     <<"U+1F68","U+1F60">>, <<"U+1F69","U+1F61">>, <<"U+1F6A","U+1F62">>,
     <<"U+1F6B","U+1F63">>, <<"U+1F6C","U+1F64">>, <<"U+1F6D","U+1F65">>,
     <<"U+1F6E","U+1F66">>, <<"U+1F6F","U+1F67">>, <<"U+1F88","U+1F80">>,
     <<"U+1F89","U+1F81">>, <<"U+1F8A","U+1F82">>, <<"U+1F8B","U+1F83">>,
     <<"U+1F8C","U+1F84">>, <<"U+1F8D","U+1F85">>, <<"U+1F8E","U+1F86">>,
     <<"U+1F8F","U+1F87">>, <<"U+1F98","U+1F90">>, <<"U+1F99","U+1F91">>,
     <<"U+1F9A","U+1F92">>, <<"U+1F9B","U+1F93">>, <<"U+1F9C","U+1F94">>,
     <<"U+1F9D","U+1F95">>, <<"U+1F9E","U+1F96">>, <<"U+1F9F","U+1F97">>,
     <<"U+1FA8","U+1FA0">>, <<"U+1FA9","U+1FA1">>, <<"U+1FAA","U+1FA2">>,
     <<"U+1FAB","U+1FA3">>, <<"U+1FAC","U+1FA4">>, <<"U+1FAD","U+1FA5">>,
     <<"U+1FAE","U+1FA6">>, <<"U+1FAF","U+1FA7">>, <<"U+1FB8","U+1FB0">>,
     <<"U+1FB9","U+1FB1">>, <<"U+1FBA","U+1F70">>, <<"U+1FBB","U+1F71">>,
     <<"U+1FBC","U+1FB3">>, <<"U+1FC8","U+1F72">>, <<"U+1FC9","U+1F73">>,
     <<"U+1FCA","U+1F74">>, <<"U+1FCB","U+1F75">>, <<"U+1FCC","U+1FC3">>,
     <<"U+1FD8","U+1FD0">>, <<"U+1FD9","U+1FD1">>, <<"U+1FDA","U+1F76">>,
     <<"U+1FDB","U+1F77">>, <<"U+1FE8","U+1FE0">>, <<"U+1FE9","U+1FE1">>,
     <<"U+1FEA","U+1F7A">>, <<"U+1FEB","U+1F7B">>, <<"U+1FEC","U+1FE5">>,
     <<"U+1FF8","U+1F78">>, <<"U+1FF9","U+1F79">>, <<"U+1FFA","U+1F7C">>,
     <<"U+1FFB","U+1F7D">>, <<"U+1FFC","U+1FF3">>, <<"U+2126","U+03C9">>,
     <<"U+212A","k">>, <<"U+212B","U+00E5">>, <<"U+2132","U+214E">>,
     <<"U+2160","U+2170">>, <<"U+2161","U+2171">>, <<"U+2162","U+2172">>,
     <<"U+2163","U+2173">>, <<"U+2164","U+2174">>, <<"U+2165","U+2175">>,
     <<"U+2166","U+2176">>, <<"U+2167","U+2177">>, <<"U+2168","U+2178">>,
     <<"U+2169","U+2179">>, <<"U+216A","U+217A">>, <<"U+216B","U+217B">>,
     <<"U+216C","U+217C">>, <<"U+216D","U+217D">>, <<"U+216E","U+217E">>,
     <<"U+216F","U+217F">>, <<"U+2183","U+2184">>, <<"U+24B6","U+24D0">>,
     <<"U+24B7","U+24D1">>, <<"U+24B8","U+24D2">>, <<"U+24B9","U+24D3">>,
     <<"U+24BA","U+24D4">>, <<"U+24BB","U+24D5">>, <<"U+24BC","U+24D6">>,
     <<"U+24BD","U+24D7">>, <<"U+24BE","U+24D8">>, <<"U+24BF","U+24D9">>,
     <<"U+24C0","U+24DA">>, <<"U+24C1","U+24DB">>, <<"U+24C2","U+24DC">>,
     <<"U+24C3","U+24DD">>, <<"U+24C4","U+24DE">>, <<"U+24C5","U+24DF">>,
     <<"U+24C6","U+24E0">>, <<"U+24C7","U+24E1">>, <<"U+24C8","U+24E2">>,
     <<"U+24C9","U+24E3">>, <<"U+24CA","U+24E4">>, <<"U+24CB","U+24E5">>,
     <<"U+24CC","U+24E6">>, <<"U+24CD","U+24E7">>, <<"U+24CE","U+24E8">>,
     <<"U+24CF","U+24E9">>, <<"U+2C00","U+2C30">>, <<"U+2C01","U+2C31">>,
     <<"U+2C02","U+2C32">>, <<"U+2C03","U+2C33">>, <<"U+2C04","U+2C34">>,
     <<"U+2C05","U+2C35">>, <<"U+2C06","U+2C36">>, <<"U+2C07","U+2C37">>,
     <<"U+2C08","U+2C38">>, <<"U+2C09","U+2C39">>, <<"U+2C0A","U+2C3A">>,
     <<"U+2C0B","U+2C3B">>, <<"U+2C0C","U+2C3C">>, <<"U+2C0D","U+2C3D">>,
     <<"U+2C0E","U+2C3E">>, <<"U+2C0F","U+2C3F">>, <<"U+2C10","U+2C40">>,
     <<"U+2C11","U+2C41">>, <<"U+2C12","U+2C42">>, <<"U+2C13","U+2C43">>,
     <<"U+2C14","U+2C44">>, <<"U+2C15","U+2C45">>, <<"U+2C16","U+2C46">>,
     <<"U+2C17","U+2C47">>, <<"U+2C18","U+2C48">>, <<"U+2C19","U+2C49">>,
     <<"U+2C1A","U+2C4A">>, <<"U+2C1B","U+2C4B">>, <<"U+2C1C","U+2C4C">>,
     <<"U+2C1D","U+2C4D">>, <<"U+2C1E","U+2C4E">>, <<"U+2C1F","U+2C4F">>,
     <<"U+2C20","U+2C50">>, <<"U+2C21","U+2C51">>, <<"U+2C22","U+2C52">>,
     <<"U+2C23","U+2C53">>, <<"U+2C24","U+2C54">>, <<"U+2C25","U+2C55">>,
     <<"U+2C26","U+2C56">>, <<"U+2C27","U+2C57">>, <<"U+2C28","U+2C58">>,
     <<"U+2C29","U+2C59">>, <<"U+2C2A","U+2C5A">>, <<"U+2C2B","U+2C5B">>,
     <<"U+2C2C","U+2C5C">>, <<"U+2C2D","U+2C5D">>, <<"U+2C2E","U+2C5E">>,
     <<"U+2C60","U+2C61">>, <<"U+2C62","U+026B">>, <<"U+2C63","U+1D7D">>,
     <<"U+2C64","U+027D">>, <<"U+2C67","U+2C68">>, <<"U+2C69","U+2C6A">>,
     <<"U+2C6B","U+2C6C">>, <<"U+2C6D","U+0251">>, <<"U+2C6E","U+0271">>,
     <<"U+2C6F","U+0250">>, <<"U+2C70","U+0252">>, <<"U+2C72","U+2C73">>,
     <<"U+2C75","U+2C76">>, <<"U+2C7E","U+023F">>, <<"U+2C7F","U+0240">>,
     <<"U+2C80","U+2C81">>, <<"U+2C82","U+2C83">>, <<"U+2C84","U+2C85">>,
     <<"U+2C86","U+2C87">>, <<"U+2C88","U+2C89">>, <<"U+2C8A","U+2C8B">>,
     <<"U+2C8C","U+2C8D">>, <<"U+2C8E","U+2C8F">>, <<"U+2C90","U+2C91">>,
     <<"U+2C92","U+2C93">>, <<"U+2C94","U+2C95">>, <<"U+2C96","U+2C97">>,
     <<"U+2C98","U+2C99">>, <<"U+2C9A","U+2C9B">>, <<"U+2C9C","U+2C9D">>,
     <<"U+2C9E","U+2C9F">>, <<"U+2CA0","U+2CA1">>, <<"U+2CA2","U+2CA3">>,
     <<"U+2CA4","U+2CA5">>, <<"U+2CA6","U+2CA7">>, <<"U+2CA8","U+2CA9">>,
     <<"U+2CAA","U+2CAB">>, <<"U+2CAC","U+2CAD">>, <<"U+2CAE","U+2CAF">>,
     <<"U+2CB0","U+2CB1">>, <<"U+2CB2","U+2CB3">>, <<"U+2CB4","U+2CB5">>,
     <<"U+2CB6","U+2CB7">>, <<"U+2CB8","U+2CB9">>, <<"U+2CBA","U+2CBB">>,
     <<"U+2CBC","U+2CBD">>, <<"U+2CBE","U+2CBF">>, <<"U+2CC0","U+2CC1">>,
     <<"U+2CC2","U+2CC3">>, <<"U+2CC4","U+2CC5">>, <<"U+2CC6","U+2CC7">>,
     <<"U+2CC8","U+2CC9">>, <<"U+2CCA","U+2CCB">>, <<"U+2CCC","U+2CCD">>,
     <<"U+2CCE","U+2CCF">>, <<"U+2CD0","U+2CD1">>, <<"U+2CD2","U+2CD3">>,
     <<"U+2CD4","U+2CD5">>, <<"U+2CD6","U+2CD7">>, <<"U+2CD8","U+2CD9">>,
     <<"U+2CDA","U+2CDB">>, <<"U+2CDC","U+2CDD">>, <<"U+2CDE","U+2CDF">>,
     <<"U+2CE0","U+2CE1">>, <<"U+2CE2","U+2CE3">>, <<"U+2CEB","U+2CEC">>,
     <<"U+2CED","U+2CEE">>, <<"U+2CF2","U+2CF3">>, <<"U+A640","U+A641">>,
     <<"U+A642","U+A643">>, <<"U+A644","U+A645">>, <<"U+A646","U+A647">>,
     <<"U+A648","U+A649">>, <<"U+A64A","U+A64B">>, <<"U+A64C","U+A64D">>,
     <<"U+A64E","U+A64F">>, <<"U+A650","U+A651">>, <<"U+A652","U+A653">>,
     <<"U+A654","U+A655">>, <<"U+A656","U+A657">>, <<"U+A658","U+A659">>,
     <<"U+A65A","U+A65B">>, <<"U+A65C","U+A65D">>, <<"U+A65E","U+A65F">>,
     <<"U+A660","U+A661">>, <<"U+A662","U+A663">>, <<"U+A664","U+A665">>,
     <<"U+A666","U+A667">>, <<"U+A668","U+A669">>, <<"U+A66A","U+A66B">>,
     <<"U+A66C","U+A66D">>, <<"U+A680","U+A681">>, <<"U+A682","U+A683">>,
     <<"U+A684","U+A685">>, <<"U+A686","U+A687">>, <<"U+A688","U+A689">>,
     <<"U+A68A","U+A68B">>, <<"U+A68C","U+A68D">>, <<"U+A68E","U+A68F">>,
     <<"U+A690","U+A691">>, <<"U+A692","U+A693">>, <<"U+A694","U+A695">>,
     <<"U+A696","U+A697">>, <<"U+A698","U+A699">>, <<"U+A69A","U+A69B">>,
     <<"U+A722","U+A723">>, <<"U+A724","U+A725">>, <<"U+A726","U+A727">>,
     <<"U+A728","U+A729">>, <<"U+A72A","U+A72B">>, <<"U+A72C","U+A72D">>,
     <<"U+A72E","U+A72F">>, <<"U+A732","U+A733">>, <<"U+A734","U+A735">>,
     <<"U+A736","U+A737">>, <<"U+A738","U+A739">>, <<"U+A73A","U+A73B">>,
     <<"U+A73C","U+A73D">>, <<"U+A73E","U+A73F">>, <<"U+A740","U+A741">>,
     <<"U+A742","U+A743">>, <<"U+A744","U+A745">>, <<"U+A746","U+A747">>,
     <<"U+A748","U+A749">>, <<"U+A74A","U+A74B">>, <<"U+A74C","U+A74D">>,
     <<"U+A74E","U+A74F">>, <<"U+A750","U+A751">>, <<"U+A752","U+A753">>,
     <<"U+A754","U+A755">>, <<"U+A756","U+A757">>, <<"U+A758","U+A759">>,
     <<"U+A75A","U+A75B">>, <<"U+A75C","U+A75D">>, <<"U+A75E","U+A75F">>,
     <<"U+A760","U+A761">>, <<"U+A762","U+A763">>, <<"U+A764","U+A765">>,
     <<"U+A766","U+A767">>, <<"U+A768","U+A769">>, <<"U+A76A","U+A76B">>,
     <<"U+A76C","U+A76D">>, <<"U+A76E","U+A76F">>, <<"U+A779","U+A77A">>,
     <<"U+A77B","U+A77C">>, <<"U+A77D","U+1D79">>, <<"U+A77E","U+A77F">>,
     <<"U+A780","U+A781">>, <<"U+A782","U+A783">>, <<"U+A784","U+A785">>,
     <<"U+A786","U+A787">>, <<"U+A78B","U+A78C">>, <<"U+A78D","U+0265">>,
     <<"U+A790","U+A791">>, <<"U+A792","U+A793">>, <<"U+A796","U+A797">>,
     <<"U+A798","U+A799">>, <<"U+A79A","U+A79B">>, <<"U+A79C","U+A79D">>,
     <<"U+A79E","U+A79F">>, <<"U+A7A0","U+A7A1">>, <<"U+A7A2","U+A7A3">>,
     <<"U+A7A4","U+A7A5">>, <<"U+A7A6","U+A7A7">>, <<"U+A7A8","U+A7A9">>,
     <<"U+A7AA","U+0266">>, <<"U+A7AB","U+025C">>, <<"U+A7AC","U+0261">>,
     <<"U+A7AD","U+026C">>, <<"U+A7AE","U+026A">>, <<"U+A7B0","U+029E">>,
     <<"U+A7B1","U+0287">>, <<"U+A7B2","U+029D">>, <<"U+A7B3","U+AB53">>,
     <<"U+A7B4","U+A7B5">>, <<"U+A7B6","U+A7B7">>, <<"U+A7B8","U+A7B9">>,
     <<"U+A7BA","U+A7BB">>, <<"U+A7BC","U+A7BD">>, <<"U+A7BE","U+A7BF">>,
     <<"U+A7C2","U+A7C3">>, <<"U+A7C4","U+A794">>, <<"U+A7C5","U+0282">>,
     <<"U+A7C6","U+1D8E">>, <<"U+A7C7","U+A7C8">>, <<"U+A7C9","U+A7CA">>,
     <<"U+A7F5","U+A7F6">>, <<"U+FF21","U+FF41">>, <<"U+FF22","U+FF42">>,
     <<"U+FF23","U+FF43">>, <<"U+FF24","U+FF44">>, <<"U+FF25","U+FF45">>,
     <<"U+FF26","U+FF46">>, <<"U+FF27","U+FF47">>, <<"U+FF28","U+FF48">>,
     <<"U+FF29","U+FF49">>, <<"U+FF2A","U+FF4A">>, <<"U+FF2B","U+FF4B">>,
     <<"U+FF2C","U+FF4C">>, <<"U+FF2D","U+FF4D">>, <<"U+FF2E","U+FF4E">>,
     <<"U+FF2F","U+FF4F">>, <<"U+FF30","U+FF50">>, <<"U+FF31","U+FF51">>,
     <<"U+FF32","U+FF52">>, <<"U+FF33","U+FF53">>, <<"U+FF34","U+FF54">>,
     <<"U+FF35","U+FF55">>, <<"U+FF36","U+FF56">>, <<"U+FF37","U+FF57">>,
     <<"U+FF38","U+FF58">>, <<"U+FF39","U+FF59">>, <<"U+FF3A","U+FF5A">>,
     <<"U+10400","U+10428">>, <<"U+10401","U+10429">>, <<"U+10402","U+1042A">>,
     <<"U+10403","U+1042B">>, <<"U+10404","U+1042C">>, <<"U+10405","U+1042D">>,
     <<"U+10406","U+1042E">>, <<"U+10407","U+1042F">>, <<"U+10408","U+10430">>,
     <<"U+10409","U+10431">>, <<"U+1040A","U+10432">>, <<"U+1040B","U+10433">>,
     <<"U+1040C","U+10434">>, <<"U+1040D","U+10435">>, <<"U+1040E","U+10436">>,
     <<"U+1040F","U+10437">>, <<"U+10410","U+10438">>, <<"U+10411","U+10439">>,
     <<"U+10412","U+1043A">>, <<"U+10413","U+1043B">>, <<"U+10414","U+1043C">>,
     <<"U+10415","U+1043D">>, <<"U+10416","U+1043E">>, <<"U+10417","U+1043F">>,
     <<"U+10418","U+10440">>, <<"U+10419","U+10441">>, <<"U+1041A","U+10442">>,
     <<"U+1041B","U+10443">>, <<"U+1041C","U+10444">>, <<"U+1041D","U+10445">>,
     <<"U+1041E","U+10446">>, <<"U+1041F","U+10447">>, <<"U+10420","U+10448">>,
     <<"U+10421","U+10449">>, <<"U+10422","U+1044A">>, <<"U+10423","U+1044B">>,
     <<"U+10424","U+1044C">>, <<"U+10425","U+1044D">>, <<"U+10426","U+1044E">>,
     <<"U+10427","U+1044F">>, <<"U+104B0","U+104D8">>, <<"U+104B1","U+104D9">>,
     <<"U+104B2","U+104DA">>, <<"U+104B3","U+104DB">>, <<"U+104B4","U+104DC">>,
     <<"U+104B5","U+104DD">>, <<"U+104B6","U+104DE">>, <<"U+104B7","U+104DF">>,
     <<"U+104B8","U+104E0">>, <<"U+104B9","U+104E1">>, <<"U+104BA","U+104E2">>,
     <<"U+104BB","U+104E3">>, <<"U+104BC","U+104E4">>, <<"U+104BD","U+104E5">>,
     <<"U+104BE","U+104E6">>, <<"U+104BF","U+104E7">>, <<"U+104C0","U+104E8">>,
     <<"U+104C1","U+104E9">>, <<"U+104C2","U+104EA">>, <<"U+104C3","U+104EB">>,
     <<"U+104C4","U+104EC">>, <<"U+104C5","U+104ED">>, <<"U+104C6","U+104EE">>,
     <<"U+104C7","U+104EF">>, <<"U+104C8","U+104F0">>, <<"U+104C9","U+104F1">>,
     <<"U+104CA","U+104F2">>, <<"U+104CB","U+104F3">>, <<"U+104CC","U+104F4">>,
     <<"U+104CD","U+104F5">>, <<"U+104CE","U+104F6">>, <<"U+104CF","U+104F7">>,
     <<"U+104D0","U+104F8">>, <<"U+104D1","U+104F9">>, <<"U+104D2","U+104FA">>,
     <<"U+104D3","U+104FB">>, <<"U+10C80","U+10CC0">>, <<"U+10C81","U+10CC1">>,
     <<"U+10C82","U+10CC2">>, <<"U+10C83","U+10CC3">>, <<"U+10C84","U+10CC4">>,
     <<"U+10C85","U+10CC5">>, <<"U+10C86","U+10CC6">>, <<"U+10C87","U+10CC7">>,
     <<"U+10C88","U+10CC8">>, <<"U+10C89","U+10CC9">>, <<"U+10C8A","U+10CCA">>,
     <<"U+10C8B","U+10CCB">>, <<"U+10C8C","U+10CCC">>, <<"U+10C8D","U+10CCD">>,
     <<"U+10C8E","U+10CCE">>, <<"U+10C8F","U+10CCF">>, <<"U+10C90","U+10CD0">>,
     <<"U+10C91","U+10CD1">>, <<"U+10C92","U+10CD2">>, <<"U+10C93","U+10CD3">>,
     <<"U+10C94","U+10CD4">>, <<"U+10C95","U+10CD5">>, <<"U+10C96","U+10CD6">>,
     <<"U+10C97","U+10CD7">>, <<"U+10C98","U+10CD8">>, <<"U+10C99","U+10CD9">>,
     <<"U+10C9A","U+10CDA">>, <<"U+10C9B","U+10CDB">>, <<"U+10C9C","U+10CDC">>,
     <<"U+10C9D","U+10CDD">>, <<"U+10C9E","U+10CDE">>, <<"U+10C9F","U+10CDF">>,
     <<"U+10CA0","U+10CE0">>, <<"U+10CA1","U+10CE1">>, <<"U+10CA2","U+10CE2">>,
     <<"U+10CA3","U+10CE3">>, <<"U+10CA4","U+10CE4">>, <<"U+10CA5","U+10CE5">>,
     <<"U+10CA6","U+10CE6">>, <<"U+10CA7","U+10CE7">>, <<"U+10CA8","U+10CE8">>,
     <<"U+10CA9","U+10CE9">>, <<"U+10CAA","U+10CEA">>, <<"U+10CAB","U+10CEB">>,
     <<"U+10CAC","U+10CEC">>, <<"U+10CAD","U+10CED">>, <<"U+10CAE","U+10CEE">>,
     <<"U+10CAF","U+10CEF">>, <<"U+10CB0","U+10CF0">>, <<"U+10CB1","U+10CF1">>,
     <<"U+10CB2","U+10CF2">>, <<"U+118A0","U+118C0">>, <<"U+118A1","U+118C1">>,
     <<"U+118A2","U+118C2">>, <<"U+118A3","U+118C3">>, <<"U+118A4","U+118C4">>,
     <<"U+118A5","U+118C5">>, <<"U+118A6","U+118C6">>, <<"U+118A7","U+118C7">>,
     <<"U+118A8","U+118C8">>, <<"U+118A9","U+118C9">>, <<"U+118AA","U+118CA">>,
     <<"U+118AB","U+118CB">>, <<"U+118AC","U+118CC">>, <<"U+118AD","U+118CD">>,
     <<"U+118AE","U+118CE">>, <<"U+118AF","U+118CF">>, <<"U+118B0","U+118D0">>,
     <<"U+118B1","U+118D1">>, <<"U+118B2","U+118D2">>, <<"U+118B3","U+118D3">>,
     <<"U+118B4","U+118D4">>, <<"U+118B5","U+118D5">>, <<"U+118B6","U+118D6">>,
     <<"U+118B7","U+118D7">>, <<"U+118B8","U+118D8">>, <<"U+118B9","U+118D9">>,
     <<"U+118BA","U+118DA">>, <<"U+118BB","U+118DB">>, <<"U+118BC","U+118DC">>,
     <<"U+118BD","U+118DD">>, <<"U+118BE","U+118DE">>, <<"U+118BF","U+118DF">>,
     <<"U+16E40","U+16E60">>, <<"U+16E41","U+16E61">>, <<"U+16E42","U+16E62">>,
     <<"U+16E43","U+16E63">>, <<"U+16E44","U+16E64">>, <<"U+16E45","U+16E65">>,
     <<"U+16E46","U+16E66">>, <<"U+16E47","U+16E67">>, <<"U+16E48","U+16E68">>,
     <<"U+16E49","U+16E69">>, <<"U+16E4A","U+16E6A">>, <<"U+16E4B","U+16E6B">>,
     <<"U+16E4C","U+16E6C">>, <<"U+16E4D","U+16E6D">>, <<"U+16E4E","U+16E6E">>,
     <<"U+16E4F","U+16E6F">>, <<"U+16E50","U+16E70">>, <<"U+16E51","U+16E71">>,
     <<"U+16E52","U+16E72">>, <<"U+16E53","U+16E73">>, <<"U+16E54","U+16E74">>,
     <<"U+16E55","U+16E75">>, <<"U+16E56","U+16E76">>, <<"U+16E57","U+16E77">>,
     <<"U+16E58","U+16E78">>, <<"U+16E59","U+16E79">>, <<"U+16E5A","U+16E7A">>,
     <<"U+16E5B","U+16E7B">>, <<"U+16E5C","U+16E7C">>, <<"U+16E5D","U+16E7D">>,
     <<"U+16E5E","U+16E7E">>, <<"U+16E5F","U+16E7F">>, <<"U+1E900","U+1E922">>,
     <<"U+1E901","U+1E923">>, <<"U+1E902","U+1E924">>, <<"U+1E903","U+1E925">>,
     <<"U+1E904","U+1E926">>, <<"U+1E905","U+1E927">>, <<"U+1E906","U+1E928">>,
     <<"U+1E907","U+1E929">>, <<"U+1E908","U+1E92A">>, <<"U+1E909","U+1E92B">>,
     <<"U+1E90A","U+1E92C">>, <<"U+1E90B","U+1E92D">>, <<"U+1E90C","U+1E92E">>,
     <<"U+1E90D","U+1E92F">>, <<"U+1E90E","U+1E930">>, <<"U+1E90F","U+1E931">>,
     <<"U+1E910","U+1E932">>, <<"U+1E911","U+1E933">>, <<"U+1E912","U+1E934">>,
     <<"U+1E913","U+1E935">>, <<"U+1E914","U+1E936">>, <<"U+1E915","U+1E937">>,
     <<"U+1E916","U+1E938">>, <<"U+1E917","U+1E939">>, <<"U+1E918","U+1E93A">>,
     <<"U+1E919","U+1E93B">>, <<"U+1E91A","U+1E93C">>, <<"U+1E91B","U+1E93D">>,
     <<"U+1E91C","U+1E93E">>, <<"U+1E91D","U+1E93F">>, <<"U+1E91E","U+1E940">>,
     <<"U+1E91F","U+1E941">>, <<"U+1E920","U+1E942">>, <<"U+1E921","U+1E943">>}

\* unicode.ToLower: the pairs Unicode 14.0 added; the tables of Unicode
\* 15.0 have them and no other addition
LowerPairsSince14 ==
    {<<"U+2C2F","U+2C5F">>, <<"U+A7C0","U+A7C1">>, <<"U+A7D0","U+A7D1">>,
     <<"U+A7D6","U+A7D7">>, <<"U+A7D8","U+A7D9">>, <<"U+10570","U+10597">>,
     <<"U+10571","U+10598">>, <<"U+10572","U+10599">>, <<"U+10573","U+1059A">>,
     <<"U+10574","U+1059B">>, <<"U+10575","U+1059C">>, <<"U+10576","U+1059D">>,
     <<"U+10577","U+1059E">>, <<"U+10578","U+1059F">>, <<"U+10579","U+105A0">>,
     <<"U+1057A","U+105A1">>, <<"U+1057C","U+105A3">>, <<"U+1057D","U+105A4">>,
     <<"U+1057E","U+105A5">>, <<"U+1057F","U+105A6">>, <<"U+10580","U+105A7">>,
     <<"U+10581","U+105A8">>, <<"U+10582","U+105A9">>, <<"U+10583","U+105AA">>,
     <<"U+10584","U+105AB">>, <<"U+10585","U+105AC">>, <<"U+10586","U+105AD">>,
     <<"U+10587","U+105AE">>, <<"U+10588","U+105AF">>, <<"U+10589","U+105B0">>,
     <<"U+1058A","U+105B1">>, <<"U+1058C","U+105B3">>, <<"U+1058D","U+105B4">>,
     <<"U+1058E","U+105B5">>, <<"U+1058F","U+105B6">>, <<"U+10590","U+105B7">>,
     <<"U+10591","U+105B8">>, <<"U+10592","U+105B9">>, <<"U+10594","U+105BB">>,
     <<"U+10595","U+105BC">>}

\* the Unicode versions of the Go releases: 13.0 in Go 1.16 to 1.20, 15.0
\* from Go 1.21 on
UnicodeVersions == {"13.0", "15.0"}

\* the case table as a function of the runes it changes
CaseTable(pairs) ==
    [c \in {p[1] : p \in pairs} |-> (CHOOSE p \in pairs : p[1] = c)[2]]

LowerOf13 == CaseTable(LowerPairs)
LowerOf15 == CaseTable(LowerPairs \cup LowerPairsSince14)

\* unicode.ToLower of the runes it changes, in the build
LowerOf == IF unicodeVersion = "15.0" THEN LowerOf15 ELSE LowerOf13

\* strings.ToLower
ToLower(s) ==
    [i \in 1..Len(s) |-> IF s[i] \in DOMAIN LowerOf THEN LowerOf[s[i]] ELSE s[i]]

\* strings.Contains
Contains(s, substr) ==
    \E i \in 0..(Len(s) - Len(substr)) :
        \A j \in 1..Len(substr) : s[i + j] = substr[j]

RECURSIVE Join(_, _)
\* strings.Join
Join(elems, sep) ==
    IF elems = <<>> THEN <<>>
    ELSE IF Len(elems) = 1 THEN elems[1]
    ELSE elems[1] \o sep \o Join(Tail(elems), sep)

\* the separator strings.Split(s, "\n") splits at
IsNewline(c) == c = "\n"

\* number of lines strings.Split(s, "\n") yields
LineCount(s) == 1 + Len(SelectSeq(s, IsNewline))

Max(a, b) == IF a > b THEN a ELSE b
Min(a, b) == IF a < b THEN a ELSE b

\* ------------------------------------------------------- document texts
welcomeMessage ==
    <<"W","e","l","c","o","m","e"," ","t","o"," ","t","h","e"," ","I","n","n","o","v","a","t","i","o","n"," ","E","n","g","i","n","e"," ","A","s","s","i","s","t","a","n","t","!","\n">>
    \o <<"\n">>
    \o <<"I"," ","c","a","n"," ","h","e","l","p"," ","y","o","u"," ","c","r","e","a","t","e"," ","e","x","e","c","u","t","a","b","l","e"," ","d","o","c","u","m","e","n","t","s"," ","f","o","r"," ","K","u","b","e","r","n","e","t","e","s"," ","t","a","s","k","s","."," ","H","e","r","e","'","s"," ","h","o","w"," ","i","t"," ","w","o","r","k","s",":","\n">>
    \o <<"\n">>
    \o <<"U+1F680"," ","G","E","T","T","I","N","G"," ","S","T","A","R","T","E","D",":","\n">>
    \o <<"U+2022"," ","T","y","p","e"," ","y","o","u","r"," ","q","u","e","s","t","i","o","n"," ","i","n"," ","t","h","e"," ","t","e","x","t"," ","b","o","x"," ","b","e","l","o","w","\n">>
    \o <<"U+2022"," ","P","r","e","s","s"," ","C","t","r","l","+","S"," ","t","o"," ","s","e","n","d"," ","y","o","u","r"," ","q","u","e","r","y","\n">>
    \o <<"U+2022"," ","I","'","l","l"," ","g","e","n","e","r","a","t","e"," ","a","n"," ","e","x","e","c","u","t","a","b","l","e"," ","d","o","c","u","m","e","n","t"," ","y","o","u"," ","c","a","n"," ","s","a","v","e"," ","a","n","d"," ","r","u","n","\n">>
    \o <<"\n">>
    \o <<"U+26A1"," ","Q","U","I","C","K"," ","S","T","A","R","T"," ","O","P","T","I","O","N","S",":","\n">>
    \o <<"U+2022"," ","F","1",":"," ","D","e","p","l","o","y"," ","a","n"," ","a","p","p","l","i","c","a","t","i","o","n"," ","t","o"," ","K","u","b","e","r","n","e","t","e","s","\n">>
    \o <<"U+2022"," ","F","2",":"," ","C","r","e","a","t","e"," ","a"," ","K","u","b","e","r","n","e","t","e","s"," ","s","e","r","v","i","c","e"," "," ","\n">>
    \o <<"U+2022"," ","F","3",":"," ","S","e","t"," ","u","p"," ","a","n"," ","i","n","g","r","e","s","s"," ","c","o","n","t","r","o","l","l","e","r","\n">>
    \o <<"\n">>
    \o <<"U+1F4DD"," ","E","X","A","M","P","L","E"," ","Q","U","E","R","I","E","S",":","\n">>
    \o <<"U+2022"," ","\"","H","o","w"," ","d","o"," ","I"," ","c","r","e","a","t","e"," ","a"," ","d","e","p","l","o","y","m","e","n","t","?","\"","\n">>
    \o <<"U+2022"," ","\"","H","e","l","p"," ","m","e"," ","s","e","t"," ","u","p"," ","p","e","r","s","i","s","t","e","n","t"," ","s","t","o","r","a","g","e","\"","\n">>
    \o <<"U+2022"," ","\"","I"," ","n","e","e","d"," ","t","o"," ","c","o","n","f","i","g","u","r","e"," ","a"," ","l","o","a","d"," ","b","a","l","a","n","c","e","r","\"","\n">>
    \o <<"U+2022"," ","\"","S","h","o","w"," ","m","e"," ","h","o","w"," ","t","o"," ","s","c","a","l","e"," ","a","n"," ","a","p","p","l","i","c","a","t","i","o","n","\"","\n">>
    \o <<"\n">>
    \o <<"U+1F4A1"," ","T","I","P",":"," ","A","l","l"," ","r","e","s","p","o","n","s","e","s"," ","a","r","e"," ","e","x","e","c","u","t","a","b","l","e"," ","d","o","c","u","m","e","n","t","s"," ","y","o","u"," ","c","a","n"," ","s","a","v","e"," ","a","s"," ",".","m","d"," ","f","i","l","e","s"," ","a","n","d"," ","r","u","n"," ","w","i","t","h",":","\n">>
    \o <<" "," "," ","i","e"," ","e","x","e","c","u","t","e"," ","f","i","l","e","n","a","m","e",".","m","d"," ","(","a","u","t","o","m","a","t","i","c"," ","e","x","e","c","u","t","i","o","n",")","\n">>
    \o <<" "," "," ","i","e"," ","i","n","t","e","r","a","c","t","i","v","e"," ","f","i","l","e","n","a","m","e",".","m","d"," ","(","s","t","e","p","-","b","y","-","s","t","e","p"," ","g","u","i","d","e",")","\n">>
    \o <<"\n">>
    \o <<"R","e","a","d","y"," ","t","o"," ","g","e","t"," ","s","t","a","r","t","e","d","?"," ","A","s","k"," ","m","e"," ","a","n","y","t","h","i","n","g"," ","a","b","o","u","t"," ","K","u","b","e","r","n","e","t","e","s","!">>

DeploymentDocument ==
    <<"I","'","l","l"," ","h","e","l","p"," ","y","o","u"," ","c","r","e","a","t","e"," ","a"," ","d","e","p","l","o","y","m","e","n","t","."," ","H","e","r","e","'","s"," ","a","n"," ","e","x","e","c","u","t","a","b","l","e"," ","d","o","c","u","m","e","n","t",":","\n">>
    \o <<"\n">>
    \o <<"#"," ","D","e","p","l","o","y"," ","A","p","p","l","i","c","a","t","i","o","n"," ","t","o"," ","K","u","b","e","r","n","e","t","e","s","\n">>
    \o <<"\n">>
    \o <<"#","#"," ","P","r","e","r","e","q","u","i","s","i","t","e","s","\n">>
    \o <<"\n">>
    \o <<"M","a","k","e"," ","s","u","r","e"," ","y","o","u"," ","h","a","v","e"," ","a"," ","r","u","n","n","i","n","g"," ","K","u","b","e","r","n","e","t","e","s"," ","c","l","u","s","t","e","r",":","\n">>
    \o <<"\n">>
    \o <<"U+0060","U+0060","U+0060","b","a","s","h","\n">>
    \o <<"k","u","b","e","c","t","l"," ","c","l","u","s","t","e","r","-","i","n","f","o","\n">>
    \o <<"U+0060","U+0060","U+0060","\n">>
    \o <<"\n">>
    \o <<"#","#"," ","S","t","e","p"," ","1",":"," ","C","r","e","a","t","e"," ","D","e","p","l","o","y","m","e","n","t","\n">>
    \o <<"\n">>
    \o <<"U+0060","U+0060","U+0060","b","a","s","h","\n">>
    \o <<"k","u","b","e","c","t","l"," ","c","r","e","a","t","e"," ","d","e","p","l","o","y","m","e","n","t"," ","m","y","-","a","p","p"," ","-","-","i","m","a","g","e","=","n","g","i","n","x",":","l","a","t","e","s","t"," ","-","-","r","e","p","l","i","c","a","s","=","3","\n">>
    \o <<"U+0060","U+0060","U+0060","\n">>
    \o <<"\n">>
    \o <<"#","#"," ","S","t","e","p"," ","2",":"," ","E","x","p","o","s","e"," ","t","h","e"," ","D","e","p","l","o","y","m","e","n","t","\n">>
    \o <<"\n">>
    \o <<"U+0060","U+0060","U+0060","b","a","s","h","\n">>
    \o <<"k","u","b","e","c","t","l"," ","e","x","p","o","s","e"," ","d","e","p","l","o","y","m","e","n","t"," ","m","y","-","a","p","p"," ","-","-","p","o","r","t","=","8","0"," ","-","-","t","a","r","g","e","t","-","p","o","r","t","=","8","0"," ","-","-","t","y","p","e","=","C","l","u","s","t","e","r","I","P","\n">>
    \o <<"U+0060","U+0060","U+0060","\n">>
    \o <<"\n">>
    \o <<"#","#"," ","S","t","e","p"," ","3",":"," ","V","e","r","i","f","y"," ","D","e","p","l","o","y","m","e","n","t","\n">>
    \o <<"\n">>
    \o <<"U+0060","U+0060","U+0060","b","a","s","h","\n">>
    \o <<"k","u","b","e","c","t","l"," ","g","e","t"," ","d","e","p","l","o","y","m","e","n","t","s","\n">>
    \o <<"k","u","b","e","c","t","l"," ","g","e","t"," ","p","o","d","s"," ","-","l"," ","a","p","p","=","m","y","-","a","p","p","\n">>
    \o <<"k","u","b","e","c","t","l"," ","d","e","s","c","r","i","b","e"," ","d","e","p","l","o","y","m","e","n","t"," ","m","y","-","a","p","p","\n">>
    \o <<"U+0060","U+0060","U+0060","\n">>
    \o <<"\n">>
    \o <<"#","#"," ","O","p","t","i","o","n","a","l",":"," ","S","c","a","l","e"," ","t","h","e"," ","D","e","p","l","o","y","m","e","n","t","\n">>
    \o <<"\n">>
    \o <<"U+0060","U+0060","U+0060","b","a","s","h","\n">>
    \o <<"k","u","b","e","c","t","l"," ","s","c","a","l","e"," ","d","e","p","l","o","y","m","e","n","t"," ","m","y","-","a","p","p"," ","-","-","r","e","p","l","i","c","a","s","=","5","\n">>
    \o <<"U+0060","U+0060","U+0060","\n">>
    \o <<"\n">>
    \o <<"S","a","v","e"," ","t","h","i","s"," ","a","s"," ","'","d","e","p","l","o","y","m","e","n","t",".","m","d","'"," ","a","n","d"," ","r","u","n",":"," ","\n">>
    \o <<"-"," ","i","e"," ","e","x","e","c","u","t","e"," ","d","e","p","l","o","y","m","e","n","t",".","m","d"," ","(","t","o"," ","r","u","n"," ","a","u","t","o","m","a","t","i","c","a","l","l","y",")","\n">>
    \o <<"-"," ","i","e"," ","i","n","t","e","r","a","c","t","i","v","e"," ","d","e","p","l","o","y","m","e","n","t",".","m","d"," ","(","t","o"," ","r","u","n"," ","s","t","e","p"," ","b","y"," ","s","t","e","p",")">>

ServiceDocument ==
    <<"H","e","r","e","'","s"," ","h","o","w"," ","t","o"," ","c","r","e","a","t","e"," ","a"," ","K","u","b","e","r","n","e","t","e","s"," ","s","e","r","v","i","c","e",":","\n">>
    \o <<"\n">>
    \o <<"#"," ","C","r","e","a","t","e"," ","K","u","b","e","r","n","e","t","e","s"," ","S","e","r","v","i","c","e","\n">>
    \o <<"\n">>
    \o <<"#","#"," ","S","t","e","p"," ","1",":"," ","C","r","e","a","t","e"," ","S","e","r","v","i","c","e"," ","Y","A","M","L","\n">>
    \o <<"\n">>
    \o <<"U+0060","U+0060","U+0060","b","a","s","h","\n">>
    \o <<"c","a","t"," ","<","<","E","O","F"," ",">"," ","s","e","r","v","i","c","e",".","y","a","m","l","\n">>
    \o <<"a","p","i","V","e","r","s","i","o","n",":"," ","v","1","\n">>
    \o <<"k","i","n","d",":"," ","S","e","r","v","i","c","e","\n">>
    \o <<"m","e","t","a","d","a","t","a",":","\n">>
    \o <<" "," ","n","a","m","e",":"," ","m","y","-","s","e","r","v","i","c","e","\n">>
    \o <<" "," ","l","a","b","e","l","s",":","\n">>
    \o <<" "," "," "," ","a","p","p",":"," ","m","y","-","a","p","p","\n">>
    \o <<"s","p","e","c",":","\n">>
    \o <<" "," ","s","e","l","e","c","t","o","r",":","\n">>
    \o <<" "," "," "," ","a","p","p",":"," ","m","y","-","a","p","p","\n">>
    \o <<" "," ","p","o","r","t","s",":","\n">>
    \o <<" "," "," "," ","-"," ","p","r","o","t","o","c","o","l",":"," ","T","C","P","\n">>
    \o <<" "," "," "," "," "," ","p","o","r","t",":"," ","8","0","\n">>
    \o <<" "," "," "," "," "," ","t","a","r","g","e","t","P","o","r","t",":"," ","8","0","8","0","\n">>
    \o <<" "," ","t","y","p","e",":"," ","C","l","u","s","t","e","r","I","P","\n">>
    \o <<"E","O","F","\n">>
    \o <<"U+0060","U+0060","U+0060","\n">>
    \o <<"\n">>
    \o <<"#","#"," ","S","t","e","p"," ","2",":"," ","A","p","p","l","y"," ","S","e","r","v","i","c","e","\n">>
    \o <<"\n">>
    \o <<"U+0060","U+0060","U+0060","b","a","s","h","\n">>
    \o <<"k","u","b","e","c","t","l"," ","a","p","p","l","y"," ","-","f"," ","s","e","r","v","i","c","e",".","y","a","m","l","\n">>
    \o <<"U+0060","U+0060","U+0060","\n">>
    \o <<"\n">>
    \o <<"#","#"," ","S","t","e","p"," ","3",":"," ","V","e","r","i","f","y"," ","S","e","r","v","i","c","e","\n">>
    \o <<"\n">>
    \o <<"U+0060","U+0060","U+0060","b","a","s","h","\n">>
    \o <<"k","u","b","e","c","t","l"," ","g","e","t"," ","s","e","r","v","i","c","e","s","\n">>
    \o <<"k","u","b","e","c","t","l"," ","d","e","s","c","r","i","b","e"," ","s","e","r","v","i","c","e"," ","m","y","-","s","e","r","v","i","c","e","\n">>
    \o <<"U+0060","U+0060","U+0060","\n">>
    \o <<"\n">>
    \o <<"#","#"," ","S","t","e","p"," ","4",":"," ","T","e","s","t"," ","S","e","r","v","i","c","e"," ","C","o","n","n","e","c","t","i","v","i","t","y","\n">>
    \o <<"\n">>
    \o <<"U+0060","U+0060","U+0060","b","a","s","h","\n">>
    \o <<"k","u","b","e","c","t","l"," ","r","u","n"," ","t","e","s","t","-","p","o","d"," ","-","-","i","m","a","g","e","=","b","u","s","y","b","o","x"," ","-","-","r","m"," ","-","i","t"," ","-","-","r","e","s","t","a","r","t","=","N","e","v","e","r"," ","-","-"," ","/","b","i","n","/","s","h"," ","-","c"," ","\"","w","g","e","t"," ","-","q","O","-"," ","h","t","t","p",":","/","/","m","y","-","s","e","r","v","i","c","e","\"","\n">>
    \o <<"U+0060","U+0060","U+0060","\n">>
    \o <<"\n">>
    \o <<"S","a","v","e"," ","t","h","i","s"," ","a","s"," ","'","s","e","r","v","i","c","e",".","m","d","'"," ","a","n","d"," ","r","u","n",":"," ","i","e"," ","e","x","e","c","u","t","e"," ","s","e","r","v","i","c","e",".","m","d">>

IngressDocument ==
    <<"I","'","l","l"," ","g","u","i","d","e"," ","y","o","u"," ","t","h","r","o","u","g","h"," ","s","e","t","t","i","n","g"," ","u","p"," ","a","n"," ","i","n","g","r","e","s","s"," ","c","o","n","t","r","o","l","l","e","r",":","\n">>
    \o <<"\n">>
    \o <<"#"," ","S","e","t","u","p"," ","I","n","g","r","e","s","s"," ","C","o","n","t","r","o","l","l","e","r","\n">>
    \o <<"\n">>
    \o <<"#","#"," ","S","t","e","p"," ","1",":"," ","I","n","s","t","a","l","l"," ","N","G","I","N","X"," ","I","n","g","r","e","s","s"," ","C","o","n","t","r","o","l","l","e","r","\n">>
    \o <<"\n">>
    \o <<"U+0060","U+0060","U+0060","b","a","s","h","\n">>
    \o <<"k","u","b","e","c","t","l"," ","a","p","p","l","y"," ","-","f"," ","h","t","t","p","s",":","/","/","r","a","w",".","g","i","t","h","u","b","u","s","e","r","c","o","n","t","e","n","t",".","c","o","m","/","k","u","b","e","r","n","e","t","e","s","/","i","n","g","r","e","s","s","-","n","g","i","n","x","/","c","o","n","t","r","o","l","l","e","r","-","v","1",".","8",".","1","/","d","e","p","l","o","y","/","s","t","a","t","i","c","/","p","r","o","v","i","d","e","r","/","c","l","o","u","d","/","d","e","p","l","o","y",".","y","a","m","l","\n">>
    \o <<"U+0060","U+0060","U+0060","\n">>
    \o <<"\n">>
    \o <<"#","#"," ","S","t","e","p"," ","2",":"," ","W","a","i","t"," ","f","o","r"," ","C","o","n","t","r","o","l","l","e","r"," ","t","o"," ","b","e"," ","R","e","a","d","y","\n">>
    \o <<"\n">>
    \o <<"U+0060","U+0060","U+0060","b","a","s","h","\n">>
    \o <<"k","u","b","e","c","t","l"," ","w","a","i","t"," ","-","-","n","a","m","e","s","p","a","c","e"," ","i","n","g","r","e","s","s","-","n","g","i","n","x"," ","\\","\n">>
    \o <<" "," ","-","-","f","o","r","=","c","o","n","d","i","t","i","o","n","=","r","e","a","d","y"," ","p","o","d"," ","\\","\n">>
    \o <<" "," ","-","-","s","e","l","e","c","t","o","r","=","a","p","p",".","k","u","b","e","r","n","e","t","e","s",".","i","o","/","c","o","m","p","o","n","e","n","t","=","c","o","n","t","r","o","l","l","e","r"," ","\\","\n">>
    \o <<" "," ","-","-","t","i","m","e","o","u","t","=","9","0","s","\n">>
    \o <<"U+0060","U+0060","U+0060","\n">>
    \o <<"\n">>
    \o <<"#","#"," ","S","t","e","p"," ","3",":"," ","C","r","e","a","t","e"," ","I","n","g","r","e","s","s"," ","R","e","s","o","u","r","c","e","\n">>
    \o <<"\n">>
    \o <<"U+0060","U+0060","U+0060","b","a","s","h","\n">>
    \o <<"c","a","t"," ","<","<","E","O","F"," ",">"," ","i","n","g","r","e","s","s",".","y","a","m","l","\n">>
    \o <<"a","p","i","V","e","r","s","i","o","n",":"," ","n","e","t","w","o","r","k","i","n","g",".","k","8","s",".","i","o","/","v","1","\n">>
    \o <<"k","i","n","d",":"," ","I","n","g","r","e","s","s","\n">>
    \o <<"m","e","t","a","d","a","t","a",":","\n">>
    \o <<" "," ","n","a","m","e",":"," ","m","y","-","i","n","g","r","e","s","s","\n">>
    \o <<" "," ","a","n","n","o","t","a","t","i","o","n","s",":","\n">>
    \o <<" "," "," "," ","n","g","i","n","x",".","i","n","g","r","e","s","s",".","k","u","b","e","r","n","e","t","e","s",".","i","o","/","r","e","w","r","i","t","e","-","t","a","r","g","e","t",":"," ","/","\n">>
    \o <<"s","p","e","c",":","\n">>
    \o <<" "," ","r","u","l","e","s",":","\n">>
    \o <<" "," ","-"," ","h","o","s","t",":"," ","m","y","-","a","p","p",".","l","o","c","a","l","\n">>
    \o <<" "," "," "," ","h","t","t","p",":","\n">>
    \o <<" "," "," "," "," "," ","p","a","t","h","s",":","\n">>
    \o <<" "," "," "," "," "," ","-"," ","p","a","t","h",":"," ","/","\n">>
    \o <<" "," "," "," "," "," "," "," ","p","a","t","h","T","y","p","e",":"," ","P","r","e","f","i","x","\n">>
    \o <<" "," "," "," "," "," "," "," ","b","a","c","k","e","n","d",":","\n">>
    \o <<" "," "," "," "," "," "," "," "," "," ","s","e","r","v","i","c","e",":","\n">>
    \o <<" "," "," "," "," "," "," "," "," "," "," "," ","n","a","m","e",":"," ","m","y","-","s","e","r","v","i","c","e","\n">>
    \o <<" "," "," "," "," "," "," "," "," "," "," "," ","p","o","r","t",":","\n">>
    \o <<" "," "," "," "," "," "," "," "," "," "," "," "," "," ","n","u","m","b","e","r",":"," ","8","0","\n">>
    \o <<"E","O","F","\n">>
    \o <<"U+0060","U+0060","U+0060","\n">>
    \o <<"\n">>
    \o <<"#","#"," ","S","t","e","p"," ","4",":"," ","A","p","p","l","y"," ","I","n","g","r","e","s","s","\n">>
    \o <<"\n">>
    \o <<"U+0060","U+0060","U+0060","b","a","s","h","\n">>
    \o <<"k","u","b","e","c","t","l"," ","a","p","p","l","y"," ","-","f"," ","i","n","g","r","e","s","s",".","y","a","m","l","\n">>
    \o <<"U+0060","U+0060","U+0060","\n">>
    \o <<"\n">>
    \o <<"#","#"," ","S","t","e","p"," ","5",":"," ","V","e","r","i","f","y"," ","I","n","g","r","e","s","s","\n">>
    \o <<"\n">>
    \o <<"U+0060","U+0060","U+0060","b","a","s","h","\n">>
    \o <<"k","u","b","e","c","t","l"," ","g","e","t"," ","i","n","g","r","e","s","s","\n">>
    \o <<"k","u","b","e","c","t","l"," ","d","e","s","c","r","i","b","e"," ","i","n","g","r","e","s","s"," ","m","y","-","i","n","g","r","e","s","s","\n">>
    \o <<"U+0060","U+0060","U+0060","\n">>
    \o <<"\n">>
    \o <<"S","a","v","e"," ","t","h","i","s"," ","a","s"," ","'","i","n","g","r","e","s","s",".","m","d","'"," ","a","n","d"," ","r","u","n",":"," ","i","e"," ","e","x","e","c","u","t","e"," ","i","n","g","r","e","s","s",".","m","d">>

PodDocument ==
    <<"H","e","r","e","'","s"," ","h","o","w"," ","t","o"," ","w","o","r","k"," ","w","i","t","h"," ","p","o","d","s",":","\n">>
    \o <<"\n">>
    \o <<"#"," ","W","o","r","k","i","n","g"," ","w","i","t","h"," ","K","u","b","e","r","n","e","t","e","s"," ","P","o","d","s","\n">>
    \o <<"\n">>
    \o <<"#","#"," ","S","t","e","p"," ","1",":"," ","C","r","e","a","t","e"," ","a"," ","S","i","m","p","l","e"," ","P","o","d","\n">>
    \o <<"\n">>
    \o <<"U+0060","U+0060","U+0060","b","a","s","h","\n">>
    \o <<"c","a","t"," ","<","<","E","O","F"," ",">"," ","p","o","d",".","y","a","m","l","\n">>
    \o <<"a","p","i","V","e","r","s","i","o","n",":"," ","v","1","\n">>
    \o <<"k","i","n","d",":"," ","P","o","d","\n">>
    \o <<"m","e","t","a","d","a","t","a",":","\n">>
    \o <<" "," ","n","a","m","e",":"," ","m","y","-","p","o","d","\n">>
    \o <<" "," ","l","a","b","e","l","s",":","\n">>
    \o <<" "," "," "," ","a","p","p",":"," ","m","y","-","a","p","p","\n">>
    \o <<"s","p","e","c",":","\n">>
    \o <<" "," ","c","o","n","t","a","i","n","e","r","s",":","\n">>
    \o <<" "," ","-"," ","n","a","m","e",":"," ","n","g","i","n","x","\n">>
    \o <<" "," "," "," ","i","m","a","g","e",":"," ","n","g","i","n","x",":","l","a","t","e","s","t","\n">>
    \o <<" "," "," "," ","p","o","r","t","s",":","\n">>
    \o <<" "," "," "," ","-"," ","c","o","n","t","a","i","n","e","r","P","o","r","t",":"," ","8","0","\n">>
    \o <<"E","O","F","\n">>
    \o <<"U+0060","U+0060","U+0060","\n">>
    \o <<"\n">>
    \o <<"#","#"," ","S","t","e","p"," ","2",":"," ","A","p","p","l","y"," ","P","o","d"," ","C","o","n","f","i","g","u","r","a","t","i","o","n","\n">>
    \o <<"\n">>
    \o <<"U+0060","U+0060","U+0060","b","a","s","h","\n">>
    \o <<"k","u","b","e","c","t","l"," ","a","p","p","l","y"," ","-","f"," ","p","o","d",".","y","a","m","l","\n">>
    \o <<"U+0060","U+0060","U+0060","\n">>
    \o <<"\n">>
    \o <<"#","#"," ","S","t","e","p"," ","3",":"," ","M","o","n","i","t","o","r"," ","P","o","d"," ","S","t","a","t","u","s","\n">>
    \o <<"\n">>
    \o <<"U+0060","U+0060","U+0060","b","a","s","h","\n">>
    \o <<"k","u","b","e","c","t","l"," ","g","e","t"," ","p","o","d","s","\n">>
    \o <<"k","u","b","e","c","t","l"," ","d","e","s","c","r","i","b","e"," ","p","o","d"," ","m","y","-","p","o","d","\n">>
    \o <<"U+0060","U+0060","U+0060","\n">>
    \o <<"\n">>
    \o <<"#","#"," ","S","t","e","p"," ","4",":"," ","V","i","e","w"," ","P","o","d"," ","L","o","g","s","\n">>
    \o <<"\n">>
    \o <<"U+0060","U+0060","U+0060","b","a","s","h","\n">>
    \o <<"k","u","b","e","c","t","l"," ","l","o","g","s"," ","m","y","-","p","o","d","\n">>
    \o <<"U+0060","U+0060","U+0060","\n">>
    \o <<"\n">>
    \o <<"#","#"," ","S","t","e","p"," ","5",":"," ","E","x","e","c","u","t","e"," ","C","o","m","m","a","n","d","s"," ","i","n"," ","P","o","d","\n">>
    \o <<"\n">>
    \o <<"U+0060","U+0060","U+0060","b","a","s","h","\n">>
    \o <<"k","u","b","e","c","t","l"," ","e","x","e","c"," ","-","i","t"," ","m","y","-","p","o","d"," ","-","-"," ","/","b","i","n","/","b","a","s","h","\n">>
    \o <<"U+0060","U+0060","U+0060","\n">>
    \o <<"\n">>
    \o <<"S","a","v","e"," ","t","h","i","s"," ","a","s"," ","'","p","o","d",".","m","d","'"," ","a","n","d"," ","r","u","n",":"," ","i","e"," ","i","n","t","e","r","a","c","t","i","v","e"," ","p","o","d",".","m","d">>

StorageDocument ==
    <<"H","e","r","e","'","s"," ","h","o","w"," ","t","o"," ","s","e","t"," ","u","p"," ","p","e","r","s","i","s","t","e","n","t"," ","s","t","o","r","a","g","e",":","\n">>
    \o <<"\n">>
    \o <<"#"," ","K","u","b","e","r","n","e","t","e","s"," ","S","t","o","r","a","g","e"," ","a","n","d"," ","V","o","l","u","m","e","s","\n">>
    \o <<"\n">>
    \o <<"#","#"," ","S","t","e","p"," ","1",":"," ","C","r","e","a","t","e"," ","a"," ","P","e","r","s","i","s","t","e","n","t","V","o","l","u","m","e","\n">>
    \o <<"\n">>
    \o <<"U+0060","U+0060","U+0060","b","a","s","h","\n">>
    \o <<"c","a","t"," ","<","<","E","O","F"," ",">"," ","p","v",".","y","a","m","l","\n">>
    \o <<"a","p","i","V","e","r","s","i","o","n",":"," ","v","1","\n">>
    \o <<"k","i","n","d",":"," ","P","e","r","s","i","s","t","e","n","t","V","o","l","u","m","e","\n">>
    \o <<"m","e","t","a","d","a","t","a",":","\n">>
    \o <<" "," ","n","a","m","e",":"," ","m","y","-","p","v","\n">>
    \o <<"s","p","e","c",":","\n">>
    \o <<" "," ","c","a","p","a","c","i","t","y",":","\n">>
    \o <<" "," "," "," ","s","t","o","r","a","g","e",":"," ","1","G","i","\n">>
    \o <<" "," ","a","c","c","e","s","s","M","o","d","e","s",":","\n">>
    \o <<" "," "," "," ","-"," ","R","e","a","d","W","r","i","t","e","O","n","c","e","\n">>
    \o <<" "," ","h","o","s","t","P","a","t","h",":","\n">>
    \o <<" "," "," "," ","p","a","t","h",":"," ","/","t","m","p","/","d","a","t","a","\n">>
    \o <<"E","O","F","\n">>
    \o <<"U+0060","U+0060","U+0060","\n">>
    \o <<"\n">>
    \o <<"#","#"," ","S","t","e","p"," ","2",":"," ","C","r","e","a","t","e"," ","a"," ","P","e","r","s","i","s","t","e","n","t","V","o","l","u","m","e","C","l","a","i","m","\n">>
    \o <<"\n">>
    \o <<"U+0060","U+0060","U+0060","b","a","s","h","\n">>
    \o <<"c","a","t"," ","<","<","E","O","F"," ",">"," ","p","v","c",".","y","a","m","l","\n">>
    \o <<"a","p","i","V","e","r","s","i","o","n",":"," ","v","1","\n">>
    \o <<"k","i","n","d",":"," ","P","e","r","s","i","s","t","e","n","t","V","o","l","u","m","e","C","l","a","i","m","\n">>
    \o <<"m","e","t","a","d","a","t","a",":","\n">>
    \o <<" "," ","n","a","m","e",":"," ","m","y","-","p","v","c","\n">>
    \o <<"s","p","e","c",":","\n">>
    \o <<" "," ","a","c","c","e","s","s","M","o","d","e","s",":","\n">>
    \o <<" "," "," "," ","-"," ","R","e","a","d","W","r","i","t","e","O","n","c","e","\n">>
    \o <<" "," ","r","e","s","o","u","r","c","e","s",":","\n">>
    \o <<" "," "," "," ","r","e","q","u","e","s","t","s",":","\n">>
    \o <<" "," "," "," "," "," ","s","t","o","r","a","g","e",":"," ","1","G","i","\n">>
    \o <<"E","O","F","\n">>
    \o <<"U+0060","U+0060","U+0060","\n">>
    \o <<"\n">>
    \o <<"#","#"," ","S","t","e","p"," ","3",":"," ","A","p","p","l","y"," ","S","t","o","r","a","g","e"," ","R","e","s","o","u","r","c","e","s","\n">>
    \o <<"\n">>
    \o <<"U+0060","U+0060","U+0060","b","a","s","h","\n">>
    \o <<"k","u","b","e","c","t","l"," ","a","p","p","l","y"," ","-","f"," ","p","v",".","y","a","m","l","\n">>
    \o <<"k","u","b","e","c","t","l"," ","a","p","p","l","y"," ","-","f"," ","p","v","c",".","y","a","m","l","\n">>
    \o <<"U+0060","U+0060","U+0060","\n">>
    \o <<"\n">>
    \o <<"#","#"," ","S","t","e","p"," ","4",":"," ","V","e","r","i","f","y"," ","S","t","o","r","a","g","e","\n">>
    \o <<"\n">>
    \o <<"U+0060","U+0060","U+0060","b","a","s","h","\n">>
    \o <<"k","u","b","e","c","t","l"," ","g","e","t"," ","p","v","\n">>
    \o <<"k","u","b","e","c","t","l"," ","g","e","t"," ","p","v","c","\n">>
    \o <<"U+0060","U+0060","U+0060","\n">>
    \o <<"\n">>
    \o <<"S","a","v","e"," ","t","h","i","s"," ","a","s"," ","'","s","t","o","r","a","g","e",".","m","d","'"," ","a","n","d"," ","r","u","n",":"," ","i","e"," ","e","x","e","c","u","t","e"," ","s","t","o","r","a","g","e",".","m","d">>

DefaultResponse ==
    <<"I"," ","c","a","n"," ","h","e","l","p"," ","y","o","u"," ","w","i","t","h"," ","K","u","b","e","r","n","e","t","e","s"," ","t","a","s","k","s","!"," ","H","e","r","e"," ","a","r","e"," ","s","o","m","e"," ","t","h","i","n","g","s"," ","I"," ","c","a","n"," ","a","s","s","i","s","t"," ","w","i","t","h",":","\n">>
    \o <<"\n">>
    \o <<"*","*","D","e","p","l","o","y","m","e","n","t","s"," ","&"," ","S","e","r","v","i","c","e","s",":","*","*","\n">>
    \o <<"-"," ","C","r","e","a","t","i","n","g"," ","a","n","d"," ","m","a","n","a","g","i","n","g"," ","d","e","p","l","o","y","m","e","n","t","s","\n">>
    \o <<"-"," ","S","e","t","t","i","n","g"," ","u","p"," ","s","e","r","v","i","c","e","s"," ","a","n","d"," ","l","o","a","d"," ","b","a","l","a","n","c","e","r","s","\n">>
    \o <<"-"," ","S","c","a","l","i","n","g"," ","a","p","p","l","i","c","a","t","i","o","n","s","\n">>
    \o <<"\n">>
    \o <<"*","*","N","e","t","w","o","r","k","i","n","g",":","*","*","\n">>
    \o <<"-"," ","C","o","n","f","i","g","u","r","i","n","g"," ","i","n","g","r","e","s","s"," ","c","o","n","t","r","o","l","l","e","r","s","\n">>
    \o <<"-"," ","S","e","t","t","i","n","g"," ","u","p"," ","s","e","r","v","i","c","e"," ","m","e","s","h","\n">>
    \o <<"-"," ","N","e","t","w","o","r","k"," ","p","o","l","i","c","i","e","s","\n">>
    \o <<"\n">>
    \o <<"*","*","S","t","o","r","a","g","e",":","*","*","\n">>
    \o <<"-"," ","P","e","r","s","i","s","t","e","n","t"," ","v","o","l","u","m","e","s"," ","a","n","d"," ","c","l","a","i","m","s","\n">>
    \o <<"-"," ","S","t","o","r","a","g","e"," ","c","l","a","s","s","e","s","\n">>
    \o <<"-"," ","S","t","a","t","e","f","u","l","S","e","t","s","\n">>
    \o <<"\n">>
    \o <<"*","*","P","o","d","s"," ","&"," ","W","o","r","k","l","o","a","d","s",":","*","*","\n">>
    \o <<"-"," ","P","o","d"," ","m","a","n","a","g","e","m","e","n","t"," ","a","n","d"," ","t","r","o","u","b","l","e","s","h","o","o","t","i","n","g","\n">>
    \o <<"-"," ","J","o","b","s"," ","a","n","d"," ","C","r","o","n","J","o","b","s","\n">>
    \o <<"-"," ","D","a","e","m","o","n","S","e","t","s","\n">>
    \o <<"\n">>
    \o <<"*","*","C","o","m","m","o","n"," ","C","o","m","m","a","n","d","s",":","*","*","\n">>
    \o <<"T","r","y"," ","a","s","k","i","n","g"," ","q","u","e","s","t","i","o","n","s"," ","l","i","k","e",":","\n">>
    \o <<"-"," ","\"","H","o","w"," ","d","o"," ","I"," ","c","r","e","a","t","e"," ","a"," ","d","e","p","l","o","y","m","e","n","t","?","\"","\n">>
    \o <<"-"," ","\"","H","e","l","p"," ","m","e"," ","s","e","t"," ","u","p"," ","a"," ","s","e","r","v","i","c","e","\"","\n">>
    \o <<"-"," ","\"","I"," ","n","e","e","d"," ","t","o"," ","c","o","n","f","i","g","u","r","e"," ","i","n","g","r","e","s","s","\"","\n">>
    \o <<"-"," ","\"","H","o","w"," ","d","o"," ","I"," ","c","r","e","a","t","e"," ","p","e","r","s","i","s","t","e","n","t"," ","s","t","o","r","a","g","e","?","\"","\n">>
    \o <<"-"," ","\"","S","h","o","w"," ","m","e"," ","h","o","w"," ","t","o"," ","w","o","r","k"," ","w","i","t","h"," ","p","o","d","s","\"","\n">>
    \o <<"\n">>
    \o <<"*","*","Q","u","i","c","k"," ","S","t","a","r","t"," ","O","p","t","i","o","n","s",":","*","*","\n">>
    \o <<"-"," ","F","1",":"," ","D","e","p","l","o","y"," ","a","n"," ","a","p","p","l","i","c","a","t","i","o","n","\n">>
    \o <<"-"," ","F","2",":"," ","C","r","e","a","t","e"," ","a"," ","s","e","r","v","i","c","e"," "," ","\n">>
    \o <<"-"," ","F","3",":"," ","S","e","t"," ","u","p"," ","i","n","g","r","e","s","s"," ","c","o","n","t","r","o","l","l","e","r","\n">>
    \o <<"\n">>
    \o <<"A","l","l"," ","r","e","s","p","o","n","s","e","s"," ","a","r","e"," ","e","x","e","c","u","t","a","b","l","e"," ","d","o","c","u","m","e","n","t","s"," ","t","h","a","t"," ","y","o","u"," ","c","a","n"," ","s","a","v","e"," ","a","s"," ",".","m","d"," ","f","i","l","e","s"," ","a","n","d"," ","r","u","n"," ","w","i","t","h"," ","I","n","n","o","v","a","t","i","o","n"," ","E","n","g","i","n","e",":","\n">>
    \o <<"-"," ","'","i","e"," ","e","x","e","c","u","t","e"," ","f","i","l","e","n","a","m","e",".","m","d","'"," ","(","r","u","n","s"," ","a","u","t","o","m","a","t","i","c","a","l","l","y",")","\n">>
    \o <<"-"," ","'","i","e"," ","i","n","t","e","r","a","c","t","i","v","e"," ","f","i","l","e","n","a","m","e",".","m","d","'"," ","(","s","t","e","p","-","b","y","-","s","t","e","p",")","\n">>
    \o <<"-"," ","'","i","e"," ","t","e","s","t"," ","f","i","l","e","n","a","m","e",".","m","d","'"," ","(","v","a","l","i","d","a","t","e","s"," ","c","o","m","m","a","n","d","s",")","\n">>
    \o <<"\n">>
    \o <<"W","h","a","t"," ","w","o","u","l","d"," ","y","o","u"," ","l","i","k","e"," ","t","o"," ","l","e","a","r","n"," ","a","b","o","u","t","?">>

clearedMessage ==
    <<"C","h","a","t"," ","c","l","e","a","r","e","d","."," ","H","o","w"," ","c","a","n"," ","I"," ","h","e","l","p"," ","y","o","u","?">>

\* ------------------------------------------------------ generateResponse
kw_deployment == <<"d","e","p","l","o","y","m","e","n","t">>
kw_deploy == <<"d","e","p","l","o","y">>
kw_service == <<"s","e","r","v","i","c","e">>
kw_ingress == <<"i","n","g","r","e","s","s">>
kw_pod == <<"p","o","d">>
kw_storage == <<"s","t","o","r","a","g","e">>
kw_volume == <<"v","o","l","u","m","e">>
kw_pv == <<"p","v">>

\* generateResponse that tests the pod rule before the others
generateResponse_podFirst(query) ==
    LET queryLower == ToLower(query) IN
    IF Contains(queryLower, kw_pod)
    THEN PodDocument
    ELSE IF Contains(queryLower, kw_deployment) \/ Contains(queryLower, kw_deploy)
    THEN DeploymentDocument
    ELSE IF Contains(queryLower, kw_service)
    THEN ServiceDocument
    ELSE IF Contains(queryLower, kw_ingress)
    THEN IngressDocument
    ELSE IF Contains(queryLower, kw_storage) \/ Contains(queryLower, kw_volume)
            \/ Contains(queryLower, kw_pv)
    THEN StorageDocument
    ELSE DefaultResponse

\* generateResponse that returns nothing when no rule matches
generateResponse_noFallback(query) ==
    LET queryLower == ToLower(query) IN
    IF Contains(queryLower, kw_deployment) \/ Contains(queryLower, kw_deploy)
    THEN DeploymentDocument
    ELSE IF Contains(queryLower, kw_service)
    THEN ServiceDocument
    ELSE IF Contains(queryLower, kw_ingress)
    THEN IngressDocument
    ELSE IF Contains(queryLower, kw_pod)
    THEN PodDocument
    ELSE IF Contains(queryLower, kw_storage) \/ Contains(queryLower, kw_volume)
            \/ Contains(queryLower, kw_pv)
    THEN StorageDocument
    ELSE <<>>

\* generateResponse that tests the query as typed
generateResponse_caseSensitive(query) ==
    LET queryLower == query IN
    IF Contains(queryLower, kw_deployment) \/ Contains(queryLower, kw_deploy)
    THEN DeploymentDocument
    ELSE IF Contains(queryLower, kw_service)
    THEN ServiceDocument
    ELSE IF Contains(queryLower, kw_ingress)
    THEN IngressDocument
    ELSE IF Contains(queryLower, kw_pod)
    THEN PodDocument
    ELSE IF Contains(queryLower, kw_storage) \/ Contains(queryLower, kw_volume)
            \/ Contains(queryLower, kw_pv)
    THEN StorageDocument
    ELSE DefaultResponse

\* generateResponse that tests the ingress rule before the service rule
generateResponse_ingressFirst(query) ==
    LET queryLower == ToLower(query) IN
    IF Contains(queryLower, kw_deployment) \/ Contains(queryLower, kw_deploy)
    THEN DeploymentDocument
    ELSE IF Contains(queryLower, kw_ingress)
    THEN IngressDocument
    ELSE IF Contains(queryLower, kw_service)
    THEN ServiceDocument
    ELSE IF Contains(queryLower, kw_pod)
    THEN PodDocument
    ELSE IF Contains(queryLower, kw_storage) \/ Contains(queryLower, kw_volume)
            \/ Contains(queryLower, kw_pv)
    THEN StorageDocument
    ELSE DefaultResponse

\* generateResponse without the ingress rule
generateResponse_noIngress(query) ==
    LET queryLower == ToLower(query) IN
    IF Contains(queryLower, kw_deployment) \/ Contains(queryLower, kw_deploy)
    THEN DeploymentDocument
    ELSE IF Contains(queryLower, kw_service)
    THEN ServiceDocument
    ELSE IF Contains(queryLower, kw_pod)
    THEN PodDocument
    ELSE IF Contains(queryLower, kw_storage) \/ Contains(queryLower, kw_volume)
            \/ Contains(queryLower, kw_pv)
    THEN StorageDocument
    ELSE DefaultResponse

\* generateResponse that tests the storage rule before the pod rule
generateResponse_storageFirst(query) ==
    LET queryLower == ToLower(query) IN
    IF Contains(queryLower, kw_deployment) \/ Contains(queryLower, kw_deploy)
    THEN DeploymentDocument
    ELSE IF Contains(queryLower, kw_service)
    THEN ServiceDocument
    ELSE IF Contains(queryLower, kw_ingress)
    THEN IngressDocument
    ELSE IF Contains(queryLower, kw_storage) \/ Contains(queryLower, kw_volume)
            \/ Contains(queryLower, kw_pv)
    THEN StorageDocument
    ELSE IF Contains(queryLower, kw_pod)
    THEN PodDocument
    ELSE DefaultResponse

\* generateResponse whose storage rule does not know "pv"
generateResponse_noPv(query) ==
    LET queryLower == ToLower(query) IN
    IF Contains(queryLower, kw_deployment) \/ Contains(queryLower, kw_deploy)
    THEN DeploymentDocument
    ELSE IF Contains(queryLower, kw_service)
    THEN ServiceDocument
    ELSE IF Contains(queryLower, kw_ingress)
    THEN IngressDocument
    ELSE IF Contains(queryLower, kw_pod)
    THEN PodDocument
    ELSE IF Contains(queryLower, kw_storage) \/ Contains(queryLower, kw_volume)
    THEN StorageDocument
    ELSE DefaultResponse

\* generateResponse that tests the service rule on the query as typed
generateResponse_serviceAsTyped(query) ==
    LET queryLower == ToLower(query) IN
    IF Contains(queryLower, kw_deployment) \/ Contains(queryLower, kw_deploy)
    THEN DeploymentDocument
    ELSE IF Contains(query, kw_service)
    THEN ServiceDocument
    ELSE IF Contains(queryLower, kw_ingress)
    THEN IngressDocument
    ELSE IF Contains(queryLower, kw_pod)
    THEN PodDocument
    ELSE IF Contains(queryLower, kw_storage) \/ Contains(queryLower, kw_volume)
            \/ Contains(queryLower, kw_pv)
    THEN StorageDocument
    ELSE DefaultResponse

\* generateResponse whose pod document ends inside a fence
generateResponse_openFence(query) ==
    LET queryLower == ToLower(query) IN
    IF Contains(queryLower, kw_deployment) \/ Contains(queryLower, kw_deploy)
    THEN DeploymentDocument
    ELSE IF Contains(queryLower, kw_service)
    THEN ServiceDocument
    ELSE IF Contains(queryLower, kw_ingress)
    THEN IngressDocument
    ELSE IF Contains(queryLower, kw_pod)
    THEN PodDocument \o <<"\n","U+0060","U+0060","U+0060","b","a","s","h","\n">>
    ELSE IF Contains(queryLower, kw_storage) \/ Contains(queryLower, kw_volume)
            \/ Contains(queryLower, kw_pv)
    THEN StorageDocument
    ELSE DefaultResponse

generateResponse(query) ==
    LET queryLower == ToLower(query) IN
    IF Contains(queryLower, kw_deployment) \/ Contains(queryLower, kw_deploy)
    THEN DeploymentDocument
    ELSE IF Contains(queryLower, kw_service)
    THEN ServiceDocument
    ELSE IF Contains(queryLower, kw_ingress)
    THEN IngressDocument
    ELSE IF Contains(queryLower, kw_pod)
    THEN PodDocument
    ELSE IF Contains(queryLower, kw_storage) \/ Contains(queryLower, kw_volume)
            \/ Contains(queryLower, kw_pv)
    THEN StorageDocument
    ELSE DefaultResponse

\* fmt.Sprintf("You: %s", query)
SprintfYou(query) == <<"Y","o","u",":"," ">> \o query
\* fmt.Sprintf("Assistant: %s", response)
SprintfAssistant(response) ==
    <<"A","s","s","i","s","t","a","n","t",":"," ">> \o response

example1Query ==
    <<"C","r","e","a","t","e"," ","a"," ","d","e","p","l","o","y","m","e","n","t"," ",
      "f","o","r"," ","m","y"," ","a","p","p","l","i","c","a","t","i","o","n">>
\* an example2 query that names the deployment topic as well
example2Query_deploy ==
    <<"D","e","p","l","o","y"," ","a"," ","K","u","b","e","r","n","e","t","e","s"," ",
      "s","e","r","v","i","c","e">>
example2Query ==
    <<"C","r","e","a","t","e"," ","a"," ","K","u","b","e","r","n","e","t","e","s"," ",
      "s","e","r","v","i","c","e">>
example3Query ==
    <<"S","e","t"," ","u","p"," ","i","n","g","r","e","s","s"," ",
      "c","o","n","t","r","o","l","l","e","r">>

\* ------------------------------------------------------------ key events
\* tea.KeyMsg.String(): the name of a named key, the runes of a KeyRunes key
KeyName ==
    [KeyCtrlC |-> <<"c","t","r","l","+","c">>,
     KeyEsc   |-> <<"e","s","c">>,
     KeyCtrlL |-> <<"c","t","r","l","+","l">>,
     KeyCtrlS |-> <<"c","t","r","l","+","s">>,
     KeyF1    |-> <<"f","1">>,
     KeyF2    |-> <<"f","2">>,
     KeyF3    |-> <<"f","3">>,
     KeyEnter |-> <<"e","n","t","e","r">>,
     KeyBackspace |-> <<"b","a","c","k","s","p","a","c","e">>,
     KeyCtrlV |-> <<"c","t","r","l","+","v">>]

KeyString(msg) == IF msg.Type = "KeyRunes" THEN msg.Runes ELSE KeyName[msg.Type]

newAssistantCommands ==
    [send     |-> {KeyName.KeyCtrlS},
     quit     |-> {KeyName.KeyCtrlC, KeyName.KeyEsc},
     clear    |-> {KeyName.KeyCtrlL},
     example1 |-> {KeyName.KeyF1},
     example2 |-> {KeyName.KeyF2},
     example3 |-> {KeyName.KeyF3}]

\* key.Matches(msg, binding)
Matches(msg, binding) == KeyString(msg) \in binding

\* -------------------------------------------------------------- textarea
\* textarea.Model.SetValue
textareaSetValue(ta, s) == [ta EXCEPT !.value = s]

\* textarea.Model.SetWidth; width is the width asked of the textarea
textareaSetWidth(ta, w) == [ta EXCEPT !.width = w]

\* textarea.DefaultKeyMap: the bindings of the keys of this model.  The
\* cursor keys and the other deletions are not among the keys of KeyName, so
\* the cursor stays at the end of the value.
textareaKeyMap ==
    [InsertNewline           |-> {KeyName.KeyEnter, <<"c","t","r","l","+","m">>},
     DeleteCharacterBackward |-> {KeyName.KeyBackspace, <<"c","t","r","l","+","h">>},
     Paste                   |-> {KeyName.KeyCtrlV}]

\* textarea.Model.Length: the width of the lines in columns, one for each
\* rune of this model, and one for each newline
textareaLength(ta) == Len(ta.value)

\* textarea.Model.insertRunesFromUserInput: the runes are inserted at the
\* cursor, cut down to the space a character limit above 0 leaves
textareaInsertRunes(ta, runes) ==
    IF ta.CharLimit > 0
    THEN LET availSpace == ta.CharLimit - textareaLength(ta) IN
         IF availSpace <= 0 THEN ta
         ELSE [ta EXCEPT !.value =
                  ta.value \o SubSeq(runes, 1, Min(availSpace, Len(runes)))]
    ELSE [ta EXCEPT !.value = ta.value \o runes]

\* textarea.Model.Update, the model it returns.  The paste message inserts
\* the clipboard text as typed runes are inserted; the paste error message
\* is kept in Err.  Of the keys, InsertNewline splits the line at the cursor
\* unless the value has MaxHeight lines, and does not look at the character
\* limit; DeleteCharacterBackward removes the character before the cursor;
\* Paste returns at once; a key with no binding has its runes inserted (none
\* for a named key).
textareaUpdate(ta, msg) ==
    IF msg.kind = "pasteMsg" THEN textareaInsertRunes(ta, msg.Runes)
    ELSE IF msg.kind = "pasteErrMsg" THEN [ta EXCEPT !.Err = "clipboard"]
    ELSE IF msg.kind # "KeyMsg" THEN ta
    ELSE IF Matches(msg, textareaKeyMap.DeleteCharacterBackward)
    THEN IF ta.value = <<>> THEN ta
         ELSE [ta EXCEPT !.value = SubSeq(@, 1, Len(@) - 1)]
    ELSE IF Matches(msg, textareaKeyMap.InsertNewline)
    THEN IF ta.MaxHeight > 0 /\ LineCount(ta.value) >= ta.MaxHeight THEN ta
         ELSE [ta EXCEPT !.value = Append(@, "\n")]
    ELSE IF Matches(msg, textareaKeyMap.Paste) THEN ta
    ELSE textareaInsertRunes(ta, msg.Runes)

\* textarea.Model.Update, the command it returns: Paste, which reads the
\* clipboard, for the Paste key; the cursor's blink commands are left out
textareaCmd(ta, msg) ==
    IF msg.kind = "KeyMsg" /\ Matches(msg, textareaKeyMap.Paste)
    THEN "Paste" ELSE "nil"

\* -------------------------------------------------------------- viewport
\* viewport.Model.maxYOffset; vp.lines is len(m.lines)
viewportMaxYOffset(vp) == Max(0, vp.lines - vp.Height)

\* viewport.Model.SetYOffset
viewportSetYOffset(vp, n) ==
    [vp EXCEPT !.YOffset = Min(viewportMaxYOffset(vp), Max(0, n))]

\* viewport.Model.GotoBottom
viewportGotoBottom(vp) == viewportSetYOffset(vp, viewportMaxYOffset(vp))

\* viewport.Model.SetContent
viewportSetContent(vp, s) ==
    LET v == [vp EXCEPT !.content = s, !.lines = LineCount(s)] IN
    IF v.YOffset > v.lines - 1 THEN viewportGotoBottom(v) ELSE v

\* viewport.Model.LineDown
viewportLineDown(vp, n) ==
    IF vp.YOffset >= viewportMaxYOffset(vp) \/ n = 0 THEN vp
    ELSE viewportSetYOffset(vp, vp.YOffset + n)

\* viewport.Model.LineUp
viewportLineUp(vp, n) ==
    IF vp.YOffset <= 0 \/ n = 0 THEN vp
    ELSE viewportSetYOffset(vp, vp.YOffset - n)

\* viewport.Model.Update: the default viewport key map
viewportUpdate(vp, msg) ==
    IF msg.kind # "KeyMsg" THEN vp
    ELSE LET k == KeyString(msg) IN
         IF k \in {<<" ">>, <<"f">>}      THEN viewportLineDown(vp, vp.Height)
         ELSE IF k = <<"b">>              THEN viewportLineUp(vp, vp.Height)
         ELSE IF k = <<"u">>              THEN viewportLineUp(vp, vp.Height \div 2)
         ELSE IF k = <<"d">>              THEN viewportLineDown(vp, vp.Height \div 2)
         ELSE IF k = <<"j">>              THEN viewportLineDown(vp, 1)
         ELSE IF k = <<"k">>              THEN viewportLineUp(vp, 1)
         ELSE vp

\* ------------------------------------------------------- AssistantModel
\* the receiver m of Update and handleQuery
Model ==
    [responses |-> responses, textarea |-> textarea, viewport |-> viewport,
     width |-> width, height |-> height, environment |-> environment,
     ready |-> ready]

\* the --environment values a session is launched with
Environments == {"local"}

\* NewAssistantModel that ignores its argument
NewAssistantModel_localOnly(env) ==
    [responses   |-> <<welcomeMessage>>,
     textarea    |-> [value |-> <<>>, width |-> DefaultTextareaWidth,
                      CharLimit |-> CharLimit,
                      MaxHeight |-> DefaultTextareaMaxHeight, Err |-> "nil"],
     viewport    |-> viewportSetContent(
                        [content |-> <<>>, lines |-> 0, YOffset |-> 0,
                         Width |-> DefaultViewportWidth,
                         Height |-> DefaultViewportHeight], welcomeMessage),
     width       |-> 0,
     height      |-> 0,
     environment |-> "local",
     ready       |-> FALSE]

NewAssistantModel(env) ==
    [responses   |-> <<welcomeMessage>>,
     textarea    |-> [value |-> <<>>, width |-> DefaultTextareaWidth,
                      CharLimit |-> CharLimit,
                      MaxHeight |-> DefaultTextareaMaxHeight, Err |-> "nil"],
     viewport    |-> viewportSetContent(
                        [content |-> <<>>, lines |-> 0, YOffset |-> 0,
                         Width |-> DefaultViewportWidth,
                         Height |-> DefaultViewportHeight], welcomeMessage),
     width       |-> 0,
     height      |-> 0,
     environment |-> env,
     ready       |-> FALSE]

blankLine == <<"\n","\n">>

\* handleQuery that answers a query the transcript already holds with the
\* fallback document
handleQuery_answersOnce(m, query) ==
    LET m1 == [m EXCEPT !.responses = Append(@, SprintfYou(query))]
        response == IF \E i \in DOMAIN m.responses : m.responses[i] = SprintfYou(query)
                    THEN DefaultResponse
                    ELSE generateResponse(query)
        m2 == [m1 EXCEPT !.responses = Append(@, SprintfAssistant(response))]
        m3 == [m2 EXCEPT !.viewport =
                  viewportGotoBottom(viewportSetContent(@, Join(m2.responses, blankLine)))]
    IN [m3 EXCEPT !.textarea = textareaSetValue(@, <<>>)]

\* handleQuery with the reply appended before the query
handleQuery_replyFirst(m, query) ==
    LET response == generateResponse(query)
        m1 == [m EXCEPT !.responses = Append(@, SprintfAssistant(response))]
        m2 == [m1 EXCEPT !.responses = Append(@, SprintfYou(query))]
        m3 == [m2 EXCEPT !.viewport =
                  viewportGotoBottom(viewportSetContent(@, Join(m2.responses, blankLine)))]
    IN [m3 EXCEPT !.textarea = textareaSetValue(@, <<>>)]

\* handleQuery that forgets to append the reply
handleQuery_noReply(m, query) ==
    LET m1 == [m EXCEPT !.responses = Append(@, SprintfYou(query))]
        m3 == [m1 EXCEPT !.viewport =
                  viewportGotoBottom(viewportSetContent(@, Join(m1.responses, blankLine)))]
    IN [m3 EXCEPT !.textarea = textareaSetValue(@, <<>>)]

\* handleQuery that forgets to clear the textarea
handleQuery_keepInput(m, query) ==
    LET m1 == [m EXCEPT !.responses = Append(@, SprintfYou(query))]
        response == generateResponse(query)
        m2 == [m1 EXCEPT !.responses = Append(@, SprintfAssistant(response))]
    IN [m2 EXCEPT !.viewport =
            viewportGotoBottom(viewportSetContent(@, Join(m2.responses, blankLine)))]

\* handleQuery that starts the transcript afresh with the new pair
handleQuery_onlyNewest(m, query) ==
    LET m1 == [m EXCEPT !.responses = <<m.responses[1], SprintfYou(query)>>]
        response == generateResponse(query)
        m2 == [m1 EXCEPT !.responses = Append(@, SprintfAssistant(response))]
        m3 == [m2 EXCEPT !.viewport =
                  viewportGotoBottom(viewportSetContent(@, Join(m2.responses, blankLine)))]
    IN [m3 EXCEPT !.textarea = textareaSetValue(@, <<>>)]

\* handleQuery that leaves the scroll position where SetContent put it
handleQuery_noGotoBottom(m, query) ==
    LET m1 == [m EXCEPT !.responses = Append(@, SprintfYou(query))]
        response == generateResponse(query)
        m2 == [m1 EXCEPT !.responses = Append(@, SprintfAssistant(response))]
        m3 == [m2 EXCEPT !.viewport =
                  viewportSetContent(@, Join(m2.responses, blankLine))]
    IN [m3 EXCEPT !.textarea = textareaSetValue(@, <<>>)]

handleQuery(m, query) ==
    LET m1 == [m EXCEPT !.responses = Append(@, SprintfYou(query))]
        response == generateResponse(query)
        m2 == [m1 EXCEPT !.responses = Append(@, SprintfAssistant(response))]
        m3 == [m2 EXCEPT !.viewport =
                  viewportGotoBottom(viewportSetContent(@, Join(m2.responses, blankLine)))]
    IN [m3 EXCEPT !.textarea = textareaSetValue(@, <<>>)]

\* what a case of Update returns: the model and the command
Result(m, c) == [model |-> m, cmd |-> c]

\* tea.Batch(tiCmd, vpCmd): the commands of the batch that are not nil
Batch(tiCmd, vpCmd) == {tiCmd, vpCmd} \ {"nil"}

\* the resize case that forgets to set ready
windowSizeCase_notReady(m, msg) ==
    LET m1 == [m EXCEPT !.width = msg.Width, !.height = msg.Height] IN
    IF ~m1.ready
    THEN [m1 EXCEPT !.viewport.Width = msg.Width - 4,
                    !.viewport.Height = msg.Height - 10,
                    !.textarea = textareaSetWidth(@, msg.Width - 4)]
    ELSE m1

\* case tea.WindowSizeMsg
\* the resize case that takes ready back on a later resize
windowSizeCase_unready(m, msg) ==
    LET m1 == [m EXCEPT !.width = msg.Width, !.height = msg.Height] IN
    IF ~m1.ready
    THEN [m1 EXCEPT !.viewport.Width = msg.Width - 4,
                    !.viewport.Height = msg.Height - 10,
                    !.textarea = textareaSetWidth(@, msg.Width - 4),
                    !.ready = TRUE]
    ELSE [m1 EXCEPT !.ready = FALSE]

windowSizeCase(m, msg) ==
    LET m1 == [m EXCEPT !.width = msg.Width, !.height = msg.Height] IN
    IF ~m1.ready
    THEN [m1 EXCEPT !.viewport.Width = msg.Width - 4,
                    !.viewport.Height = msg.Height - 10,
                    !.textarea = textareaSetWidth(@, msg.Width - 4),
                    !.ready = TRUE]
    ELSE m1

\* case key.Matches(msg, m.commands.quit)
quitCase(m) == Result(m, "Quit")

\* the clear case appending the reset Turn instead of replacing the transcript
clearCase_append(m) ==
    LET m1 == [m EXCEPT !.responses = Append(@, clearedMessage)] IN
    Result([m1 EXCEPT !.viewport =
                viewportSetContent(@, Join(m1.responses, blankLine))],
           "nil")

\* the clear case leaving the transcript empty
clearCase_empty(m) ==
    LET m1 == [m EXCEPT !.responses = <<>>] IN
    Result([m1 EXCEPT !.viewport =
                viewportSetContent(@, Join(m1.responses, blankLine))],
           "nil")

\* the clear case that leaves the viewport as it was
clearCase_staleViewport(m) ==
    Result([m EXCEPT !.responses = <<clearedMessage>>], "nil")

\* the clear case that empties the textarea too
clearCase_resetsInput(m) ==
    LET m1 == [m EXCEPT !.responses = <<clearedMessage>>,
                        !.textarea = textareaSetValue(@, <<>>)] IN
    Result([m1 EXCEPT !.viewport =
                viewportSetContent(@, Join(m1.responses, blankLine))],
           "nil")

\* the clear case that puts the welcome message back
clearCase_welcome(m) ==
    LET m1 == [m EXCEPT !.responses = <<welcomeMessage>>] IN
    Result([m1 EXCEPT !.viewport =
                viewportSetContent(@, Join(m1.responses, blankLine))],
           "nil")

\* the clear case that leaves a transcript of one Turn as it is
clearCase_onlyWhenUsed(m) ==
    LET m1 == [m EXCEPT !.responses =
                  IF Len(@) > 1 THEN <<clearedMessage>> ELSE @] IN
    Result([m1 EXCEPT !.viewport =
                viewportSetContent(@, Join(m1.responses, blankLine))],
           "nil")

\* case key.Matches(msg, m.commands.clear)
clearCase(m) ==
    LET m1 == [m EXCEPT !.responses = <<clearedMessage>>] IN
    Result([m1 EXCEPT !.viewport =
                viewportSetContent(@, Join(m1.responses, blankLine))],
           "nil")

\* the send case without the test for an empty value
sendCase_noGuard(m) == Result(handleQuery(m, m.textarea.value), "nil")

\* case key.Matches(msg, m.commands.send)
sendCase(m) ==
    IF m.textarea.value # <<>>
    THEN Result(handleQuery(m, m.textarea.value), "nil")
    ELSE Result(m, "Batch")

\* the example case putting the typed text back after handleQuery
exampleCase_keepBuffer(m, query) ==
    Result([handleQuery(m, query) EXCEPT !.textarea = m.textarea], "nil")

\* the example case sending the typed text instead of the example query
exampleCase_bufferQuery(m, query) ==
    Result(handleQuery(m, m.textarea.value), "nil")

\* case key.Matches(msg, m.commands.example1 / example2 / example3)
\* an example case that appends the query and no reply
exampleCase_noReply(m, query) == Result(handleQuery_noReply(m, query), "nil")

exampleCase(m, query) == Result(handleQuery(m, query), "nil")

\* the case selection with the example3 case missing
keyCase_noExample3(msg) ==
    LET commands == newAssistantCommands IN
    IF Matches(msg, commands.quit) THEN "quit"
    ELSE IF Matches(msg, commands.clear) THEN "clear"
    ELSE IF Matches(msg, commands.send) THEN "send"
    ELSE IF Matches(msg, commands.example1) THEN "example1"
    ELSE IF Matches(msg, commands.example2) THEN "example2"
    ELSE "none"

\* the case selection that takes typed runes for a send
keyCase_runesSend(msg) ==
    LET commands == newAssistantCommands IN
    IF Matches(msg, commands.quit) THEN "quit"
    ELSE IF Matches(msg, commands.clear) THEN "clear"
    ELSE IF Matches(msg, commands.send) THEN "send"
    ELSE IF Matches(msg, commands.example1) THEN "example1"
    ELSE IF Matches(msg, commands.example2) THEN "example2"
    ELSE IF Matches(msg, commands.example3) THEN "example3"
    ELSE IF msg.Type = "KeyRunes" THEN "send"
    ELSE "none"

\* case tea.KeyMsg: the case the switch over the key bindings selects, the
\* first whose binding matches
keyCase(msg) ==
    LET commands == newAssistantCommands IN
    IF Matches(msg, commands.quit) THEN "quit"
    ELSE IF Matches(msg, commands.clear) THEN "clear"
    ELSE IF Matches(msg, commands.send) THEN "send"
    ELSE IF Matches(msg, commands.example1) THEN "example1"
    ELSE IF Matches(msg, commands.example2) THEN "example2"
    ELSE IF Matches(msg, commands.example3) THEN "example3"
    ELSE "none"

\* case tea.KeyMsg: the body of the selected case
keySwitch(m, msg) ==
    LET case == keyCase(msg) IN
    IF case = "quit" THEN quitCase(m)
    ELSE IF case = "clear" THEN clearCase(m)
    ELSE IF case = "send" THEN sendCase(m)
    ELSE IF case = "example1" THEN exampleCase(m, example1Query)
    ELSE IF case = "example2" THEN exampleCase(m, example2Query)
    ELSE IF case = "example3" THEN exampleCase(m, example3Query)
    ELSE Result(m, "Batch")

\* the case of the key switch Update takes on msg
matchedCase(msg) == IF msg.kind = "KeyMsg" THEN keyCase(msg) ELSE "none"

\* Update that quits on a message it does not know
Update_quitsOnUnknown(m0, msg) ==
    LET m == [m0 EXCEPT !.textarea = textareaUpdate(@, msg),
                        !.viewport = viewportUpdate(@, msg)]
    IN
    IF msg.kind = "WindowSizeMsg" THEN Result(windowSizeCase(m, msg), "Batch")
    ELSE IF msg.kind = "KeyMsg" THEN keySwitch(m, msg)
    ELSE Result(m, "Quit")

\* AssistantModel.Update: the model and the command it returns; "Batch" is
\* tea.Batch(tiCmd, vpCmd) of the last line, the cases of the key switch
\* return nil or tea.Quit and drop tiCmd
Update(m0, msg) ==
    LET m == [m0 EXCEPT !.textarea = textareaUpdate(@, msg),
                        !.viewport = viewportUpdate(@, msg)]
    IN
    IF msg.kind = "WindowSizeMsg" THEN Result(windowSizeCase(m, msg), "Batch")
    ELSE IF msg.kind = "KeyMsg" THEN keySwitch(m, msg)
    ELSE Result(m, "Batch")

\* the title the frame starts with
titleText ==
    <<"I","n","n","o","v","a","t","i","o","n"," ","E","n","g","i","n","e"," ",
      "A","s","s","i","s","t","a","n","t">>
loadingText == <<"L","o","a","d","i","n","g",".",".",".">>

\* View that renders the help line first
View_helpFirst(m) ==
    IF ~m.ready THEN <<[part |-> "text", text |-> loadingText]>>
    ELSE << [part |-> "help", bindings |-> <<"send", "clear", "quit">>],
            [part |-> "title", text |-> titleText, Width |-> m.width],
            [part |-> "viewport", border |-> TRUE, Width |-> m.viewport.Width,
             YOffset |-> m.viewport.YOffset],
            [part |-> "textarea", border |-> TRUE, Width |-> m.textarea.width,
             value |-> m.textarea.value] >>

\* AssistantModel.View: the parts of the frame that fmt.Sprintf joins by
\* blank lines, each with what its lipgloss style is given
View(m) ==
    IF ~m.ready THEN <<[part |-> "text", text |-> loadingText]>>
    ELSE << [part |-> "title", text |-> titleText, Width |-> m.width],
            [part |-> "viewport", border |-> TRUE, Width |-> m.viewport.Width,
             YOffset |-> m.viewport.YOffset],
            [part |-> "textarea", border |-> TRUE, Width |-> m.textarea.width,
             value |-> m.textarea.value],
            [part |-> "help", bindings |-> <<"send", "clear", "quit">>] >>

\* ------------------------------------------------------------ the events
KeyMsg(type, runes) == [kind |-> "KeyMsg", Type |-> type, Runes |-> runes]
WindowSizeMsg(w, h) == [kind |-> "WindowSizeMsg", Width |-> w, Height |-> h]
BlinkMsg == [kind |-> "BlinkMsg"]
\* a message of a type Update has no case for
UnexpectedMsg == [kind |-> "UnexpectedMsg"]
\* the messages of the textarea's Paste command: the clipboard text, or the
\* error of reading the clipboard
PasteMsg(text) == [kind |-> "pasteMsg", Runes |-> text]
PasteErrMsg == [kind |-> "pasteErrMsg"]

\* terminal sizes the resize events carry
Sizes == {<<80, 24>>, <<100, 30>>}
\* runes typed or pasted in one key event
TypedRunes == {<<"d">>, <<"p","v">>}

QuitKeys == {KeyMsg("KeyCtrlC", <<>>), KeyMsg("KeyEsc", <<>>)}
ClearKeys == {KeyMsg("KeyCtrlL", <<>>)}
SendKeys == {KeyMsg("KeyCtrlS", <<>>)}
ExampleKeys == {KeyMsg("KeyF1", <<>>), KeyMsg("KeyF2", <<>>), KeyMsg("KeyF3", <<>>)}
EditKeys == {KeyMsg("KeyRunes", r) : r \in TypedRunes}
AllKeys == QuitKeys \cup ClearKeys \cup SendKeys \cup ExampleKeys \cup EditKeys

\* the event loop calls Update for the messages it receives until it
\* receives the quit message
Running == loop # "closed"

\* tea.Quit was returned and its quit message has not been received: the
\* messages received before it still go to Update
Quitting == loop = "quitting"

HistAfter(case, r) ==
    IF case \in {"clear", "example1", "example2", "example3"}
    THEN [hist EXCEPT !.sendOnly = FALSE, !.sends = 0]
    ELSE IF case = "send" /\ r.cmd = "nil" /\ hist.sendOnly
    THEN [hist EXCEPT !.sends = @ + 1]
    ELSE hist

\* the messages of a Paste command are received while one is under way
Receivable(msg) == msg.kind \in {"pasteMsg", "pasteErrMsg"} => pasting > 0

\* the commands the command Update returned runs: those of
\* tea.Batch(tiCmd, vpCmd), where tiCmd is the textarea's and the viewport
\* returns none for the messages of this model
Started(r, msg) ==
    IF r.cmd = "Batch" THEN Batch(textareaCmd(textarea, msg), "nil") ELSE {}

\* the model and the command Update returned replace the old ones; a Paste
\* command of the batch is started, and is over when its message is received
Returned(r, msg) ==
    /\ cmd' = r.cmd
    /\ ready' = r.model.ready
    /\ width' = r.model.width
    /\ height' = r.model.height
    /\ environment' = r.model.environment
    /\ textarea' = r.model.textarea
    /\ unicodeVersion' = unicodeVersion
    /\ pasting' = IF msg.kind \in {"pasteMsg", "pasteErrMsg"} THEN pasting - 1
                   ELSE IF "Paste" \in Started(r, msg) THEN pasting + 1
                   ELSE pasting
    /\ loop' = IF r.cmd = "Quit" THEN "quitting" ELSE loop
    /\ hist' = HistAfter(matchedCase(msg), r)
    /\ call' = call
    /\ responses' = r.model.responses
    /\ viewport' = r.model.viewport

\* the Turns Update(msg) appends: handleQuery, called in the example cases
\* and in the send case with a value, appends the query and the reply
Appended(msg) ==
    IF \/ matchedCase(msg) \in {"example1", "example2", "example3"}
       \/ /\ matchedCase(msg) = "send"
          /\ textareaUpdate(textarea, msg).value # <<>>
    THEN 2 ELSE 0

\* one turn of the event loop: Update(msg) replaces the model
Step(msg) ==
    /\ Running
    /\ Receivable(msg)
    /\ matched' = matchedCase(msg)
    /\ Len(responses) + Appended(msg) <= MaxTurns
    /\ \E r \in {Update(Model, msg)} :
       /\ Len(r.model.responses) <= MaxTurns
       /\ Len(r.model.textarea.value) <= MaxInput
       /\ Returned(r, msg)

\* one turn of the event loop, whatever the lengths it leaves
StepAny(msg) ==
    /\ Running
    /\ Receivable(msg)
    /\ matched' = matchedCase(msg)
    /\ \E r \in {Update(Model, msg)} : Returned(r, msg)

\* no direct call of generateResponse
NoCall ==
    [query |-> <<>>, calls |-> 0, first |-> <<>>, response |-> <<>>,
     other |-> <<>>, otherCalled |-> FALSE, otherResponse |-> <<>>]

\* the program starts: NewAssistantModel(env), then Init()
SessionStart(env) ==
    LET m == NewAssistantModel(env) IN
    /\ unicodeVersion \in UnicodeVersions
    /\ responses = m.responses
    /\ textarea = m.textarea
    /\ viewport = m.viewport
    /\ width = m.width
    /\ height = m.height
    /\ environment = m.environment
    /\ ready = m.ready
    /\ cmd = "Blink"
    /\ pasting = 0
    /\ loop = "running"
    /\ matched = "none"
    /\ hist = [sendOnly |-> TRUE, sends |-> 0, env |-> env]

SessionInit == \E env \in Environments : SessionStart(env)

Init == SessionInit /\ call = NoCall

Resize == \E s \in Sizes : Step(WindowSizeMsg(s[1], s[2]))
Blink == Step(BlinkMsg)
Unexpected == Step(UnexpectedMsg)
QuitKey == \E msg \in QuitKeys : Step(msg)
ClearKey == \E msg \in ClearKeys : Step(msg)
SendKey == \E msg \in SendKeys : Step(msg)
ExampleKey == \E msg \in ExampleKeys : Step(msg)
EditKey == \E msg \in EditKeys : Step(msg)

\* the quit message of a returned tea.Quit is received: the loop ends
\* without another Update
QuitMsg ==
    /\ Quitting
    /\ loop' = "closed"
    /\ UNCHANGED <<responses, textarea, viewport, width, height, environment,
                   ready, unicodeVersion, cmd, pasting, matched, hist, call>>

Next ==
    \/ Resize \/ Blink \/ Unexpected
    \/ QuitKey \/ ClearKey \/ SendKey \/ ExampleKey \/ EditKey \/ QuitMsg

Spec == Init /\ [][Next]_vars

\* ------------------------------------- sessions of several environments
\* values of the --environment flag
LaunchEnvironments == {"local", "azure"}

InitLaunch == (\E env \in LaunchEnvironments : SessionStart(env)) /\ call = NoCall

SpecLaunch == InitLaunch /\ [][Next]_vars

\* ------------------------------------- typing up to the character limit
\* a paste of PasteLen runes arrives as one key event
PasteLen == 249
PasteRunes == [i \in 1..PasteLen |-> "x"]
TypeKeys == {KeyMsg("KeyRunes", <<"x">>)}
PasteKeys == {KeyMsg("KeyRunes", PasteRunes)}

EnterKeys == {KeyMsg("KeyEnter", <<>>)}

TypeKey == \E msg \in TypeKeys : StepAny(msg)
PasteKey == \E msg \in PasteKeys : StepAny(msg)
\* Enter is pressed with the Input Buffer at its character limit
EnterKeyAtLimit ==
    /\ Len(textarea.value) >= CharLimit
    /\ Len(SelectSeq(textarea.value, IsNewline)) < MaxNewlines
    /\ \E msg \in EnterKeys : StepAny(msg)

NextLimit == TypeKey \/ PasteKey \/ EnterKeyAtLimit

SpecLimit == Init /\ [][NextLimit]_vars

\* ------------------------------------------- editing and the clipboard
\* the clipboard texts a Paste command reads
Clipboards == {<<"p","o">>}
BackspaceKeys == {KeyMsg("KeyBackspace", <<>>)}
CtrlVKeys == {KeyMsg("KeyCtrlV", <<>>)}
PasteMsgs == {PasteMsg(text) : text \in Clipboards}

EnterKey == \E msg \in EnterKeys : Step(msg)
BackspaceKey == \E msg \in BackspaceKeys : Step(msg)
\* ctrl+v: the batch Update returns starts a Paste command
CtrlVKey == pasting < MaxPastes /\ \E msg \in CtrlVKeys : Step(msg)
\* a Paste command has read the clipboard: its message is received
Pasted == \E msg \in PasteMsgs : Step(msg)
\* a Paste command could not read the clipboard
PasteFailed == Step(PasteErrMsg)

NextEdit ==
    \/ Resize \/ Blink \/ Unexpected \/ ClearKey
    \/ EditKey \/ EnterKey \/ BackspaceKey \/ CtrlVKey \/ Pasted \/ PasteFailed

SpecEdit == Init /\ [][NextEdit]_vars

\* ------------------------------------- generateResponse called directly
\* queries are up to MaxWords words put together, each query is passed to
\* generateResponse up to MaxCalls times
MaxWords == 2
MaxCalls == 2

Words ==
    { <<"d","e","p","l","o","y">>,
      <<"D","E","P","L","O","Y","M","E","N","T">>,
      <<"S","e","r","v","i","c","e">>,
      <<"i","n","g","r","e","s","s">>,
      <<"P","o","d">>,
      <<"s","t","o","r","a","g","e">>,
      <<"V","o","l","u","m","e">>,
      <<"p","v">>,
      <<"x","y","z","z","y">>,
      <<"S","E","R","V","U+0130","C","E">>,
      <<"U+017F","e","r","v","i","c","e">>,
      <<"U+A7C0","p","o","d">> }

RECURSIVE QueriesOf(_)
QueriesOf(n) ==
    IF n = 0 THEN {<<>>}
    ELSE LET shorter == QueriesOf(n - 1) IN
         shorter \cup {q \o w : q \in shorter, w \in Words}

Queries == QueriesOf(MaxWords)

\* unicode.ToUpper: <<rune, its upper case>> for every rune that has a
\* different upper case (the simple case mapping, Unicode 13.0)
UpperPairs ==
    {<<"a","A">>, <<"b","B">>, <<"c","C">>, <<"d","D">>, <<"e","E">>,
     <<"f","F">>, <<"g","G">>, <<"h","H">>, <<"i","I">>, <<"j","J">>,
     <<"k","K">>, <<"l","L">>, <<"m","M">>, <<"n","N">>, <<"o","O">>,
     <<"p","P">>, <<"q","Q">>, <<"r","R">>, <<"s","S">>, <<"t","T">>,
     <<"u","U">>, <<"v","V">>, <<"w","W">>, <<"x","X">>, <<"y","Y">>,
     <<"z","Z">>, <<"U+00B5","U+039C">>, <<"U+00E0","U+00C0">>,
     <<"U+00E1","U+00C1">>, <<"U+00E2","U+00C2">>, <<"U+00E3","U+00C3">>,
     <<"U+00E4","U+00C4">>, <<"U+00E5","U+00C5">>, <<"U+00E6","U+00C6">>,
     <<"U+00E7","U+00C7">>, <<"U+00E8","U+00C8">>, <<"U+00E9","U+00C9">>,
     <<"U+00EA","U+00CA">>, <<"U+00EB","U+00CB">>, <<"U+00EC","U+00CC">>,
     <<"U+00ED","U+00CD">>, <<"U+00EE","U+00CE">>, <<"U+00EF","U+00CF">>,
     <<"U+00F0","U+00D0">>, <<"U+00F1","U+00D1">>, <<"U+00F2","U+00D2">>,
     <<"U+00F3","U+00D3">>, <<"U+00F4","U+00D4">>, <<"U+00F5","U+00D5">>,
     <<"U+00F6","U+00D6">>, <<"U+00F8","U+00D8">>, <<"U+00F9","U+00D9">>,
     <<"U+00FA","U+00DA">>, <<"U+00FB","U+00DB">>, <<"U+00FC","U+00DC">>,
     <<"U+00FD","U+00DD">>, <<"U+00FE","U+00DE">>, <<"U+00FF","U+0178">>,
     <<"U+0101","U+0100">>, <<"U+0103","U+0102">>, <<"U+0105","U+0104">>,
     <<"U+0107","U+0106">>, <<"U+0109","U+0108">>, <<"U+010B","U+010A">>,
     <<"U+010D","U+010C">>, <<"U+010F","U+010E">>, <<"U+0111","U+0110">>,
     <<"U+0113","U+0112">>, <<"U+0115","U+0114">>, <<"U+0117","U+0116">>,
     <<"U+0119","U+0118">>, <<"U+011B","U+011A">>, <<"U+011D","U+011C">>,
     <<"U+011F","U+011E">>, <<"U+0121","U+0120">>, <<"U+0123","U+0122">>,
     <<"U+0125","U+0124">>, <<"U+0127","U+0126">>, <<"U+0129","U+0128">>,
     <<"U+012B","U+012A">>, <<"U+012D","U+012C">>, <<"U+012F","U+012E">>,
     <<"U+0131","I">>, <<"U+0133","U+0132">>, <<"U+0135","U+0134">>,
     <<"U+0137","U+0136">>, <<"U+013A","U+0139">>, <<"U+013C","U+013B">>,
     <<"U+013E","U+013D">>, <<"U+0140","U+013F">>, <<"U+0142","U+0141">>,
     <<"U+0144","U+0143">>, <<"U+0146","U+0145">>, <<"U+0148","U+0147">>,
     <<"U+014B","U+014A">>, <<"U+014D","U+014C">>, <<"U+014F","U+014E">>,
     <<"U+0151","U+0150">>, <<"U+0153","U+0152">>, <<"U+0155","U+0154">>,
     <<"U+0157","U+0156">>, <<"U+0159","U+0158">>, <<"U+015B","U+015A">>,
     <<"U+015D","U+015C">>, <<"U+015F","U+015E">>, <<"U+0161","U+0160">>,
     <<"U+0163","U+0162">>, <<"U+0165","U+0164">>, <<"U+0167","U+0166">>,
     <<"U+0169","U+0168">>, <<"U+016B","U+016A">>, <<"U+016D","U+016C">>,
     <<"U+016F","U+016E">>, <<"U+0171","U+0170">>, <<"U+0173","U+0172">>,
     <<"U+0175","U+0174">>, <<"U+0177","U+0176">>, <<"U+017A","U+0179">>,
     <<"U+017C","U+017B">>, <<"U+017E","U+017D">>, <<"U+017F","S">>,
     <<"U+0180","U+0243">>, <<"U+0183","U+0182">>, <<"U+0185","U+0184">>,
     <<"U+0188","U+0187">>, <<"U+018C","U+018B">>, <<"U+0192","U+0191">>,
     <<"U+0195","U+01F6">>, <<"U+0199","U+0198">>, <<"U+019A","U+023D">>,
     <<"U+019E","U+0220">>, <<"U+01A1","U+01A0">>, <<"U+01A3","U+01A2">>,
     <<"U+01A5","U+01A4">>, <<"U+01A8","U+01A7">>, <<"U+01AD","U+01AC">>,
     <<"U+01B0","U+01AF">>, <<"U+01B4","U+01B3">>, <<"U+01B6","U+01B5">>,
     <<"U+01B9","U+01B8">>, <<"U+01BD","U+01BC">>, <<"U+01BF","U+01F7">>,
     <<"U+01C5","U+01C4">>, <<"U+01C6","U+01C4">>, <<"U+01C8","U+01C7">>,
     <<"U+01C9","U+01C7">>, <<"U+01CB","U+01CA">>, <<"U+01CC","U+01CA">>,
     <<"U+01CE","U+01CD">>, <<"U+01D0","U+01CF">>, <<"U+01D2","U+01D1">>,
     <<"U+01D4","U+01D3">>, <<"U+01D6","U+01D5">>, <<"U+01D8","U+01D7">>,
     <<"U+01DA","U+01D9">>, <<"U+01DC","U+01DB">>, <<"U+01DD","U+018E">>,
     <<"U+01DF","U+01DE">>, <<"U+01E1","U+01E0">>, <<"U+01E3","U+01E2">>,
     <<"U+01E5","U+01E4">>, <<"U+01E7","U+01E6">>, <<"U+01E9","U+01E8">>,
     <<"U+01EB","U+01EA">>, <<"U+01ED","U+01EC">>, <<"U+01EF","U+01EE">>,
     <<"U+01F2","U+01F1">>, <<"U+01F3","U+01F1">>, <<"U+01F5","U+01F4">>,
     <<"U+01F9","U+01F8">>, <<"U+01FB","U+01FA">>, <<"U+01FD","U+01FC">>,
     <<"U+01FF","U+01FE">>, <<"U+0201","U+0200">>, <<"U+0203","U+0202">>,
     <<"U+0205","U+0204">>, <<"U+0207","U+0206">>, <<"U+0209","U+0208">>,
     <<"U+020B","U+020A">>, <<"U+020D","U+020C">>, <<"U+020F","U+020E">>,
     <<"U+0211","U+0210">>, <<"U+0213","U+0212">>, <<"U+0215","U+0214">>,
     <<"U+0217","U+0216">>, <<"U+0219","U+0218">>, <<"U+021B","U+021A">>,
     <<"U+021D","U+021C">>, <<"U+021F","U+021E">>, <<"U+0223","U+0222">>,
     <<"U+0225","U+0224">>, <<"U+0227","U+0226">>, <<"U+0229","U+0228">>,
     <<"U+022B","U+022A">>, <<"U+022D","U+022C">>, <<"U+022F","U+022E">>,
     <<"U+0231","U+0230">>, <<"U+0233","U+0232">>, <<"U+023C","U+023B">>,
     <<"U+023F","U+2C7E">>, <<"U+0240","U+2C7F">>, <<"U+0242","U+0241">>,
     <<"U+0247","U+0246">>, <<"U+0249","U+0248">>, <<"U+024B","U+024A">>,
     <<"U+024D","U+024C">>, <<"U+024F","U+024E">>, <<"U+0250","U+2C6F">>,
     <<"U+0251","U+2C6D">>, <<"U+0252","U+2C70">>, <<"U+0253","U+0181">>,
     <<"U+0254","U+0186">>, <<"U+0256","U+0189">>, <<"U+0257","U+018A">>,
     <<"U+0259","U+018F">>, <<"U+025B","U+0190">>, <<"U+025C","U+A7AB">>,
     <<"U+0260","U+0193">>, <<"U+0261","U+A7AC">>, <<"U+0263","U+0194">>,
     <<"U+0265","U+A78D">>, <<"U+0266","U+A7AA">>, <<"U+0268","U+0197">>,
     <<"U+0269","U+0196">>, <<"U+026A","U+A7AE">>, <<"U+026B","U+2C62">>,
     <<"U+026C","U+A7AD">>, <<"U+026F","U+019C">>, <<"U+0271","U+2C6E">>,
     <<"U+0272","U+019D">>, <<"U+0275","U+019F">>, <<"U+027D","U+2C64">>,
     <<"U+0280","U+01A6">>, <<"U+0282","U+A7C5">>, <<"U+0283","U+01A9">>,
     <<"U+0287","U+A7B1">>, <<"U+0288","U+01AE">>, <<"U+0289","U+0244">>,
     <<"U+028A","U+01B1">>, <<"U+028B","U+01B2">>, <<"U+028C","U+0245">>,
     <<"U+0292","U+01B7">>, <<"U+029D","U+A7B2">>, <<"U+029E","U+A7B0">>,
     <<"U+0345","U+0399">>, <<"U+0371","U+0370">>, <<"U+0373","U+0372">>,
     <<"U+0377","U+0376">>, <<"U+037B","U+03FD">>, <<"U+037C","U+03FE">>,
     <<"U+037D","U+03FF">>, <<"U+03AC","U+0386">>, <<"U+03AD","U+0388">>,
     <<"U+03AE","U+0389">>, <<"U+03AF","U+038A">>, <<"U+03B1","U+0391">>,
     <<"U+03B2","U+0392">>, <<"U+03B3","U+0393">>, <<"U+03B4","U+0394">>,
     <<"U+03B5","U+0395">>, <<"U+03B6","U+0396">>, <<"U+03B7","U+0397">>,
     <<"U+03B8","U+0398">>, <<"U+03B9","U+0399">>, <<"U+03BA","U+039A">>,
     <<"U+03BB","U+039B">>, <<"U+03BC","U+039C">>, <<"U+03BD","U+039D">>,
     <<"U+03BE","U+039E">>, <<"U+03BF","U+039F">>, <<"U+03C0","U+03A0">>,
     <<"U+03C1","U+03A1">>, <<"U+03C2","U+03A3">>, <<"U+03C3","U+03A3">>,
     <<"U+03C4","U+03A4">>, <<"U+03C5","U+03A5">>, <<"U+03C6","U+03A6">>,
     <<"U+03C7","U+03A7">>, <<"U+03C8","U+03A8">>, <<"U+03C9","U+03A9">>,
     <<"U+03CA","U+03AA">>, <<"U+03CB","U+03AB">>, <<"U+03CC","U+038C">>,
     <<"U+03CD","U+038E">>, <<"U+03CE","U+038F">>, <<"U+03D0","U+0392">>,
     <<"U+03D1","U+0398">>, <<"U+03D5","U+03A6">>, <<"U+03D6","U+03A0">>,
     <<"U+03D7","U+03CF">>, <<"U+03D9","U+03D8">>, <<"U+03DB","U+03DA">>,
     <<"U+03DD","U+03DC">>, <<"U+03DF","U+03DE">>, <<"U+03E1","U+03E0">>,
     <<"U+03E3","U+03E2">>, <<"U+03E5","U+03E4">>, <<"U+03E7","U+03E6">>,
     <<"U+03E9","U+03E8">>, <<"U+03EB","U+03EA">>, <<"U+03ED","U+03EC">>,
     <<"U+03EF","U+03EE">>, <<"U+03F0","U+039A">>, <<"U+03F1","U+03A1">>,
     <<"U+03F2","U+03F9">>, <<"U+03F3","U+037F">>, <<"U+03F5","U+0395">>,
     <<"U+03F8","U+03F7">>, <<"U+03FB","U+03FA">>, <<"U+0430","U+0410">>,
     <<"U+0431","U+0411">>, <<"U+0432","U+0412">>, <<"U+0433","U+0413">>,
     <<"U+0434","U+0414">>, <<"U+0435","U+0415">>, <<"U+0436","U+0416">>,
     <<"U+0437","U+0417">>, <<"U+0438","U+0418">>, <<"U+0439","U+0419">>,
     <<"U+043A","U+041A">>, <<"U+043B","U+041B">>, <<"U+043C","U+041C">>,
     <<"U+043D","U+041D">>, <<"U+043E","U+041E">>, <<"U+043F","U+041F">>,
     <<"U+0440","U+0420">>, <<"U+0441","U+0421">>, <<"U+0442","U+0422">>,
     <<"U+0443","U+0423">>, <<"U+0444","U+0424">>, <<"U+0445","U+0425">>,
     <<"U+0446","U+0426">>, <<"U+0447","U+0427">>, <<"U+0448","U+0428">>,
     <<"U+0449","U+0429">>, <<"U+044A","U+042A">>, <<"U+044B","U+042B">>,
     <<"U+044C","U+042C">>, <<"U+044D","U+042D">>, <<"U+044E","U+042E">>,
     <<"U+044F","U+042F">>, <<"U+0450","U+0400">>, <<"U+0451","U+0401">>,
     <<"U+0452","U+0402">>, <<"U+0453","U+0403">>, <<"U+0454","U+0404">>,
     <<"U+0455","U+0405">>, <<"U+0456","U+0406">>, <<"U+0457","U+0407">>,
     <<"U+0458","U+0408">>, <<"U+0459","U+0409">>, <<"U+045A","U+040A">>,
     <<"U+045B","U+040B">>, <<"U+045C","U+040C">>, <<"U+045D","U+040D">>,
     <<"U+045E","U+040E">>, <<"U+045F","U+040F">>, <<"U+0461","U+0460">>,
     <<"U+0463","U+0462">>, <<"U+0465","U+0464">>, <<"U+0467","U+0466">>,
     <<"U+0469","U+0468">>, <<"U+046B","U+046A">>, <<"U+046D","U+046C">>,
     <<"U+046F","U+046E">>, <<"U+0471","U+0470">>, <<"U+0473","U+0472">>,
     <<"U+0475","U+0474">>, <<"U+0477","U+0476">>, <<"U+0479","U+0478">>,
     <<"U+047B","U+047A">>, <<"U+047D","U+047C">>, <<"U+047F","U+047E">>,
     <<"U+0481","U+0480">>, <<"U+048B","U+048A">>, <<"U+048D","U+048C">>,
     <<"U+048F","U+048E">>, <<"U+0491","U+0490">>, <<"U+0493","U+0492">>,
     <<"U+0495","U+0494">>, <<"U+0497","U+0496">>, <<"U+0499","U+0498">>,
     <<"U+049B","U+049A">>, <<"U+049D","U+049C">>, <<"U+049F","U+049E">>,
     <<"U+04A1","U+04A0">>, <<"U+04A3","U+04A2">>, <<"U+04A5","U+04A4">>,
     <<"U+04A7","U+04A6">>, <<"U+04A9","U+04A8">>, <<"U+04AB","U+04AA">>,
     <<"U+04AD","U+04AC">>, <<"U+04AF","U+04AE">>, <<"U+04B1","U+04B0">>,
     <<"U+04B3","U+04B2">>, <<"U+04B5","U+04B4">>, <<"U+04B7","U+04B6">>,
     <<"U+04B9","U+04B8">>, <<"U+04BB","U+04BA">>, <<"U+04BD","U+04BC">>,
     <<"U+04BF","U+04BE">>, <<"U+04C2","U+04C1">>, <<"U+04C4","U+04C3">>,
     <<"U+04C6","U+04C5">>, <<"U+04C8","U+04C7">>, <<"U+04CA","U+04C9">>,
     <<"U+04CC","U+04CB">>, <<"U+04CE","U+04CD">>, <<"U+04CF","U+04C0">>,
     <<"U+04D1","U+04D0">>, <<"U+04D3","U+04D2">>, <<"U+04D5","U+04D4">>,
     <<"U+04D7","U+04D6">>, <<"U+04D9","U+04D8">>, <<"U+04DB","U+04DA">>,
     <<"U+04DD","U+04DC">>, <<"U+04DF","U+04DE">>, <<"U+04E1","U+04E0">>,
     <<"U+04E3","U+04E2">>, <<"U+04E5","U+04E4">>, <<"U+04E7","U+04E6">>,
     <<"U+04E9","U+04E8">>, <<"U+04EB","U+04EA">>, <<"U+04ED","U+04EC">>,
     <<"U+04EF","U+04EE">>, <<"U+04F1","U+04F0">>, <<"U+04F3","U+04F2">>,
     <<"U+04F5","U+04F4">>, <<"U+04F7","U+04F6">>, <<"U+04F9","U+04F8">>,
     <<"U+04FB","U+04FA">>, <<"U+04FD","U+04FC">>, <<"U+04FF","U+04FE">>,
     <<"U+0501","U+0500">>, <<"U+0503","U+0502">>, <<"U+0505","U+0504">>,
     <<"U+0507","U+0506">>, <<"U+0509","U+0508">>, <<"U+050B","U+050A">>,
     <<"U+050D","U+050C">>, <<"U+050F","U+050E">>, <<"U+0511","U+0510">>,
     <<"U+0513","U+0512">>, <<"U+0515","U+0514">>, <<"U+0517","U+0516">>,
     <<"U+0519","U+0518">>, <<"U+051B","U+051A">>, <<"U+051D","U+051C">>,
     <<"U+051F","U+051E">>, <<"U+0521","U+0520">>, <<"U+0523","U+0522">>,
     <<"U+0525","U+0524">>, <<"U+0527","U+0526">>, <<"U+0529","U+0528">>,
     <<"U+052B","U+052A">>, <<"U+052D","U+052C">>, <<"U+052F","U+052E">>,
     <<"U+0561","U+0531">>, <<"U+0562","U+0532">>, <<"U+0563","U+0533">>,
     <<"U+0564","U+0534">>, <<"U+0565","U+0535">>, <<"U+0566","U+0536">>,
     <<"U+0567","U+0537">>, <<"U+0568","U+0538">>, <<"U+0569","U+0539">>,
     <<"U+056A","U+053A">>, <<"U+056B","U+053B">>, <<"U+056C","U+053C">>,
     <<"U+056D","U+053D">>, <<"U+056E","U+053E">>, <<"U+056F","U+053F">>,
     <<"U+0570","U+0540">>, <<"U+0571","U+0541">>, <<"U+0572","U+0542">>,
     <<"U+0573","U+0543">>, <<"U+0574","U+0544">>, <<"U+0575","U+0545">>,
     <<"U+0576","U+0546">>, <<"U+0577","U+0547">>, <<"U+0578","U+0548">>,
     <<"U+0579","U+0549">>, <<"U+057A","U+054A">>, <<"U+057B","U+054B">>,
     <<"U+057C","U+054C">>, <<"U+057D","U+054D">>, <<"U+057E","U+054E">>,
     <<"U+057F","U+054F">>, <<"U+0580","U+0550">>, <<"U+0581","U+0551">>,
     <<"U+0582","U+0552">>, <<"U+0583","U+0553">>, <<"U+0584","U+0554">>,
     <<"U+0585","U+0555">>, <<"U+0586","U+0556">>, <<"U+10D0","U+1C90">>,
     <<"U+10D1","U+1C91">>, <<"U+10D2","U+1C92">>, <<"U+10D3","U+1C93">>,
     <<"U+10D4","U+1C94">>, <<"U+10D5","U+1C95">>, <<"U+10D6","U+1C96">>,
     <<"U+10D7","U+1C97">>, <<"U+10D8","U+1C98">>, <<"U+10D9","U+1C99">>,
     <<"U+10DA","U+1C9A">>, <<"U+10DB","U+1C9B">>, <<"U+10DC","U+1C9C">>,
     <<"U+10DD","U+1C9D">>, <<"U+10DE","U+1C9E">>, <<"U+10DF","U+1C9F">>,
     <<"U+10E0","U+1CA0">>, <<"U+10E1","U+1CA1">>, <<"U+10E2","U+1CA2">>,
     <<"U+10E3","U+1CA3">>, <<"U+10E4","U+1CA4">>, <<"U+10E5","U+1CA5">>,
     <<"U+10E6","U+1CA6">>, <<"U+10E7","U+1CA7">>, <<"U+10E8","U+1CA8">>,
     <<"U+10E9","U+1CA9">>, <<"U+10EA","U+1CAA">>, <<"U+10EB","U+1CAB">>,
     <<"U+10EC","U+1CAC">>, <<"U+10ED","U+1CAD">>, <<"U+10EE","U+1CAE">>,
     <<"U+10EF","U+1CAF">>, <<"U+10F0","U+1CB0">>, <<"U+10F1","U+1CB1">>,
     <<"U+10F2","U+1CB2">>, <<"U+10F3","U+1CB3">>, <<"U+10F4","U+1CB4">>,
     <<"U+10F5","U+1CB5">>, <<"U+10F6","U+1CB6">>, <<"U+10F7","U+1CB7">>,
     <<"U+10F8","U+1CB8">>, <<"U+10F9","U+1CB9">>, <<"U+10FA","U+1CBA">>,
     <<"U+10FD","U+1CBD">>, <<"U+10FE","U+1CBE">>, <<"U+10FF","U+1CBF">>,
     <<"U+13F8","U+13F0">>, <<"U+13F9","U+13F1">>, <<"U+13FA","U+13F2">>,
     <<"U+13FB","U+13F3">>, <<"U+13FC","U+13F4">>, <<"U+13FD","U+13F5">>,
     <<"U+1C80","U+0412">>, <<"U+1C81","U+0414">>, <<"U+1C82","U+041E">>,
     <<"U+1C83","U+0421">>, <<"U+1C84","U+0422">>, <<"U+1C85","U+0422">>,
     <<"U+1C86","U+042A">>, <<"U+1C87","U+0462">>, <<"U+1C88","U+A64A">>,
     <<"U+1D79","U+A77D">>, <<"U+1D7D","U+2C63">>, <<"U+1D8E","U+A7C6">>,
     <<"U+1E01","U+1E00">>, <<"U+1E03","U+1E02">>, <<"U+1E05","U+1E04">>,
     <<"U+1E07","U+1E06">>, <<"U+1E09","U+1E08">>, <<"U+1E0B","U+1E0A">>,
     <<"U+1E0D","U+1E0C">>, <<"U+1E0F","U+1E0E">>, <<"U+1E11","U+1E10">>,
     <<"U+1E13","U+1E12">>, <<"U+1E15","U+1E14">>, <<"U+1E17","U+1E16">>,
     <<"U+1E19","U+1E18">>, <<"U+1E1B","U+1E1A">>, <<"U+1E1D","U+1E1C">>,
     <<"U+1E1F","U+1E1E">>, <<"U+1E21","U+1E20">>, <<"U+1E23","U+1E22">>,
     <<"U+1E25","U+1E24">>, <<"U+1E27","U+1E26">>, <<"U+1E29","U+1E28">>,
     <<"U+1E2B","U+1E2A">>, <<"U+1E2D","U+1E2C">>, <<"U+1E2F","U+1E2E">>,
     <<"U+1E31","U+1E30">>, <<"U+1E33","U+1E32">>, <<"U+1E35","U+1E34">>,
     <<"U+1E37","U+1E36">>, <<"U+1E39","U+1E38">>, <<"U+1E3B","U+1E3A">>,
     <<"U+1E3D","U+1E3C">>, <<"U+1E3F","U+1E3E">>, <<"U+1E41","U+1E40">>,
     <<"U+1E43","U+1E42">>, <<"U+1E45","U+1E44">>, <<"U+1E47","U+1E46">>,
     <<"U+1E49","U+1E48">>, <<"U+1E4B","U+1E4A">>, <<"U+1E4D","U+1E4C">>,
     <<"U+1E4F","U+1E4E">>, <<"U+1E51","U+1E50">>, <<"U+1E53","U+1E52">>,
     <<"U+1E55","U+1E54">>, <<"U+1E57","U+1E56">>, <<"U+1E59","U+1E58">>,
     <<"U+1E5B","U+1E5A">>, <<"U+1E5D","U+1E5C">>, <<"U+1E5F","U+1E5E">>,
     <<"U+1E61","U+1E60">>, <<"U+1E63","U+1E62">>, <<"U+1E65","U+1E64">>,
     <<"U+1E67","U+1E66">>, <<"U+1E69","U+1E68">>, <<"U+1E6B","U+1E6A">>,
     <<"U+1E6D","U+1E6C">>, <<"U+1E6F","U+1E6E">>, <<"U+1E71","U+1E70">>,
     <<"U+1E73","U+1E72">>, <<"U+1E75","U+1E74">>, <<"U+1E77","U+1E76">>,
     <<"U+1E79","U+1E78">>, <<"U+1E7B","U+1E7A">>, <<"U+1E7D","U+1E7C">>,
     <<"U+1E7F","U+1E7E">>, <<"U+1E81","U+1E80">>, <<"U+1E83","U+1E82">>,
     <<"U+1E85","U+1E84">>, <<"U+1E87","U+1E86">>, <<"U+1E89","U+1E88">>,
     <<"U+1E8B","U+1E8A">>, <<"U+1E8D","U+1E8C">>, <<"U+1E8F","U+1E8E">>,
     <<"U+1E91","U+1E90">>, <<"U+1E93","U+1E92">>, <<"U+1E95","U+1E94">>,
     <<"U+1E9B","U+1E60">>, <<"U+1EA1","U+1EA0">>, <<"U+1EA3","U+1EA2">>,
     <<"U+1EA5","U+1EA4">>, <<"U+1EA7","U+1EA6">>, <<"U+1EA9","U+1EA8">>,
     <<"U+1EAB","U+1EAA">>, <<"U+1EAD","U+1EAC">>, <<"U+1EAF","U+1EAE">>,
     <<"U+1EB1","U+1EB0">>, <<"U+1EB3","U+1EB2">>, <<"U+1EB5","U+1EB4">>,
     <<"U+1EB7","U+1EB6">>, <<"U+1EB9","U+1EB8">>, <<"U+1EBB","U+1EBA">>,
     <<"U+1EBD","U+1EBC">>, <<"U+1EBF","U+1EBE">>, <<"U+1EC1","U+1EC0">>,
     <<"U+1EC3","U+1EC2">>, <<"U+1EC5","U+1EC4">>, <<"U+1EC7","U+1EC6">>,
     <<"U+1EC9","U+1EC8">>, <<"U+1ECB","U+1ECA">>, <<"U+1ECD","U+1ECC">>,
     <<"U+1ECF","U+1ECE">>, <<"U+1ED1","U+1ED0">>, <<"U+1ED3","U+1ED2">>,
     <<"U+1ED5","U+1ED4">>, <<"U+1ED7","U+1ED6">>, <<"U+1ED9","U+1ED8">>,
     <<"U+1EDB","U+1EDA">>, <<"U+1EDD","U+1EDC">>, <<"U+1EDF","U+1EDE">>,
     <<"U+1EE1","U+1EE0">>, <<"U+1EE3","U+1EE2">>, <<"U+1EE5","U+1EE4">>,
     <<"U+1EE7","U+1EE6">>, <<"U+1EE9","U+1EE8">>, <<"U+1EEB","U+1EEA">>,
     <<"U+1EED","U+1EEC">>, <<"U+1EEF","U+1EEE">>, <<"U+1EF1","U+1EF0">>,
     <<"U+1EF3","U+1EF2">>, <<"U+1EF5","U+1EF4">>, <<"U+1EF7","U+1EF6">>,
     <<"U+1EF9","U+1EF8">>, <<"U+1EFB","U+1EFA">>, <<"U+1EFD","U+1EFC">>,
     <<"U+1EFF","U+1EFE">>, <<"U+1F00","U+1F08">>, <<"U+1F01","U+1F09">>,
     <<"U+1F02","U+1F0A">>, <<"U+1F03","U+1F0B">>, <<"U+1F04","U+1F0C">>,
     <<"U+1F05","U+1F0D">>, <<"U+1F06","U+1F0E">>, <<"U+1F07","U+1F0F">>,
     <<"U+1F10","U+1F18">>, <<"U+1F11","U+1F19">>, <<"U+1F12","U+1F1A">>,
     <<"U+1F13","U+1F1B">>, <<"U+1F14","U+1F1C">>, <<"U+1F15","U+1F1D">>,
     <<"U+1F20","U+1F28">>, <<"U+1F21","U+1F29">>, <<"U+1F22","U+1F2A">>,
     <<"U+1F23","U+1F2B">>, <<"U+1F24","U+1F2C">>, <<"U+1F25","U+1F2D">>,
     <<"U+1F26","U+1F2E">>, <<"U+1F27","U+1F2F">>, <<"U+1F30","U+1F38">>,
     <<"U+1F31","U+1F39">>, <<"U+1F32","U+1F3A">>, <<"U+1F33","U+1F3B">>,
     <<"U+1F34","U+1F3C">>, <<"U+1F35","U+1F3D">>, <<"U+1F36","U+1F3E">>,
     <<"U+1F37","U+1F3F">>, <<"U+1F40","U+1F48">>, <<"U+1F41","U+1F49">>,
     <<"U+1F42","U+1F4A">>, <<"U+1F43","U+1F4B">>, <<"U+1F44","U+1F4C">>,
     <<"U+1F45","U+1F4D">>, <<"U+1F51","U+1F59">>, <<"U+1F53","U+1F5B">>,
     <<"U+1F55","U+1F5D">>, <<"U+1F57","U+1F5F">>, <<"U+1F60","U+1F68">>,
     <<"U+1F61","U+1F69">>, <<"U+1F62","U+1F6A">>, <<"U+1F63","U+1F6B">>,
     <<"U+1F64","U+1F6C">>, <<"U+1F65","U+1F6D">>, <<"U+1F66","U+1F6E">>,
     <<"U+1F67","U+1F6F">>, <<"U+1F70","U+1FBA">>, <<"U+1F71","U+1FBB">>,
     <<"U+1F72","U+1FC8">>, <<"U+1F73","U+1FC9">>, <<"U+1F74","U+1FCA">>,
     <<"U+1F75","U+1FCB">>, <<"U+1F76","U+1FDA">>, <<"U+1F77","U+1FDB">>,
     <<"U+1F78","U+1FF8">>, <<"U+1F79","U+1FF9">>, <<"U+1F7A","U+1FEA">>,
     <<"U+1F7B","U+1FEB">>, <<"U+1F7C","U+1FFA">>, <<"U+1F7D","U+1FFB">>,
     <<"U+1F80","U+1F88">>, <<"U+1F81","U+1F89">>, <<"U+1F82","U+1F8A">>,
     <<"U+1F83","U+1F8B">>, <<"U+1F84","U+1F8C">>, <<"U+1F85","U+1F8D">>,
     <<"U+1F86","U+1F8E">>, <<"U+1F87","U+1F8F">>, <<"U+1F90","U+1F98">>,
     <<"U+1F91","U+1F99">>, <<"U+1F92","U+1F9A">>, <<"U+1F93","U+1F9B">>,
     <<"U+1F94","U+1F9C">>, <<"U+1F95","U+1F9D">>, <<"U+1F96","U+1F9E">>,
     <<"U+1F97","U+1F9F">>, <<"U+1FA0","U+1FA8">>, <<"U+1FA1","U+1FA9">>,
     <<"U+1FA2","U+1FAA">>, <<"U+1FA3","U+1FAB">>, <<"U+1FA4","U+1FAC">>,
     <<"U+1FA5","U+1FAD">>, <<"U+1FA6","U+1FAE">>, <<"U+1FA7","U+1FAF">>,
     <<"U+1FB0","U+1FB8">>, <<"U+1FB1","U+1FB9">>, <<"U+1FB3","U+1FBC">>,
     <<"U+1FBE","U+0399">>, <<"U+1FC3","U+1FCC">>, <<"U+1FD0","U+1FD8">>,
     <<"U+1FD1","U+1FD9">>, <<"U+1FE0","U+1FE8">>, <<"U+1FE1","U+1FE9">>,
     <<"U+1FE5","U+1FEC">>, <<"U+1FF3","U+1FFC">>, <<"U+214E","U+2132">>,
     <<"U+2170","U+2160">>, <<"U+2171","U+2161">>, <<"U+2172","U+2162">>,
     <<"U+2173","U+2163">>, <<"U+2174","U+2164">>, <<"U+2175","U+2165">>,
     <<"U+2176","U+2166">>, <<"U+2177","U+2167">>, <<"U+2178","U+2168">>,
     <<"U+2179","U+2169">>, <<"U+217A","U+216A">>, <<"U+217B","U+216B">>,
     <<"U+217C","U+216C">>, <<"U+217D","U+216D">>, <<"U+217E","U+216E">>,
     <<"U+217F","U+216F">>, <<"U+2184","U+2183">>, <<"U+24D0","U+24B6">>,
     <<"U+24D1","U+24B7">>, <<"U+24D2","U+24B8">>, <<"U+24D3","U+24B9">>,
     <<"U+24D4","U+24BA">>, <<"U+24D5","U+24BB">>, <<"U+24D6","U+24BC">>,
     <<"U+24D7","U+24BD">>, <<"U+24D8","U+24BE">>, <<"U+24D9","U+24BF">>,
     <<"U+24DA","U+24C0">>, <<"U+24DB","U+24C1">>, <<"U+24DC","U+24C2">>,
     <<"U+24DD","U+24C3">>, <<"U+24DE","U+24C4">>, <<"U+24DF","U+24C5">>,
     <<"U+24E0","U+24C6">>, <<"U+24E1","U+24C7">>, <<"U+24E2","U+24C8">>,
     <<"U+24E3","U+24C9">>, <<"U+24E4","U+24CA">>, <<"U+24E5","U+24CB">>,
     <<"U+24E6","U+24CC">>, <<"U+24E7","U+24CD">>, <<"U+24E8","U+24CE">>,
     <<"U+24E9","U+24CF">>, <<"U+2C30","U+2C00">>, <<"U+2C31","U+2C01">>,
     <<"U+2C32","U+2C02">>, <<"U+2C33","U+2C03">>, <<"U+2C34","U+2C04">>,
     <<"U+2C35","U+2C05">>, <<"U+2C36","U+2C06">>, <<"U+2C37","U+2C07">>,
     <<"U+2C38","U+2C08">>, <<"U+2C39","U+2C09">>, <<"U+2C3A","U+2C0A">>,
     <<"U+2C3B","U+2C0B">>, <<"U+2C3C","U+2C0C">>, <<"U+2C3D","U+2C0D">>,
     <<"U+2C3E","U+2C0E">>, <<"U+2C3F","U+2C0F">>, <<"U+2C40","U+2C10">>,
     <<"U+2C41","U+2C11">>, <<"U+2C42","U+2C12">>, <<"U+2C43","U+2C13">>,
     <<"U+2C44","U+2C14">>, <<"U+2C45","U+2C15">>, <<"U+2C46","U+2C16">>,
     <<"U+2C47","U+2C17">>, <<"U+2C48","U+2C18">>, <<"U+2C49","U+2C19">>,
     <<"U+2C4A","U+2C1A">>, <<"U+2C4B","U+2C1B">>, <<"U+2C4C","U+2C1C">>,
     <<"U+2C4D","U+2C1D">>, <<"U+2C4E","U+2C1E">>, <<"U+2C4F","U+2C1F">>,
     <<"U+2C50","U+2C20">>, <<"U+2C51","U+2C21">>, <<"U+2C52","U+2C22">>,
     <<"U+2C53","U+2C23">>, <<"U+2C54","U+2C24">>, <<"U+2C55","U+2C25">>,
     <<"U+2C56","U+2C26">>, <<"U+2C57","U+2C27">>, <<"U+2C58","U+2C28">>,
     <<"U+2C59","U+2C29">>, <<"U+2C5A","U+2C2A">>, <<"U+2C5B","U+2C2B">>,
     <<"U+2C5C","U+2C2C">>, <<"U+2C5D","U+2C2D">>, <<"U+2C5E","U+2C2E">>,
     <<"U+2C61","U+2C60">>, <<"U+2C65","U+023A">>, <<"U+2C66","U+023E">>,
     <<"U+2C68","U+2C67">>, <<"U+2C6A","U+2C69">>, <<"U+2C6C","U+2C6B">>,
     <<"U+2C73","U+2C72">>, <<"U+2C76","U+2C75">>, <<"U+2C81","U+2C80">>,
     <<"U+2C83","U+2C82">>, <<"U+2C85","U+2C84">>, <<"U+2C87","U+2C86">>,
     <<"U+2C89","U+2C88">>, <<"U+2C8B","U+2C8A">>, <<"U+2C8D","U+2C8C">>,
     <<"U+2C8F","U+2C8E">>, <<"U+2C91","U+2C90">>, <<"U+2C93","U+2C92">>,
     <<"U+2C95","U+2C94">>, <<"U+2C97","U+2C96">>, <<"U+2C99","U+2C98">>,
     <<"U+2C9B","U+2C9A">>, <<"U+2C9D","U+2C9C">>, <<"U+2C9F","U+2C9E">>,
     <<"U+2CA1","U+2CA0">>, <<"U+2CA3","U+2CA2">>, <<"U+2CA5","U+2CA4">>,
     <<"U+2CA7","U+2CA6">>, <<"U+2CA9","U+2CA8">>, <<"U+2CAB","U+2CAA">>,
     <<"U+2CAD","U+2CAC">>, <<"U+2CAF","U+2CAE">>, <<"U+2CB1","U+2CB0">>,
     <<"U+2CB3","U+2CB2">>, <<"U+2CB5","U+2CB4">>, <<"U+2CB7","U+2CB6">>,
     <<"U+2CB9","U+2CB8">>, <<"U+2CBB","U+2CBA">>, <<"U+2CBD","U+2CBC">>,
     <<"U+2CBF","U+2CBE">>, <<"U+2CC1","U+2CC0">>, <<"U+2CC3","U+2CC2">>,
     <<"U+2CC5","U+2CC4">>, <<"U+2CC7","U+2CC6">>, <<"U+2CC9","U+2CC8">>,
     <<"U+2CCB","U+2CCA">>, <<"U+2CCD","U+2CCC">>, <<"U+2CCF","U+2CCE">>,
     <<"U+2CD1","U+2CD0">>, <<"U+2CD3","U+2CD2">>, <<"U+2CD5","U+2CD4">>,
     <<"U+2CD7","U+2CD6">>, <<"U+2CD9","U+2CD8">>, <<"U+2CDB","U+2CDA">>,
     <<"U+2CDD","U+2CDC">>, <<"U+2CDF","U+2CDE">>, <<"U+2CE1","U+2CE0">>,
     <<"U+2CE3","U+2CE2">>, <<"U+2CEC","U+2CEB">>, <<"U+2CEE","U+2CED">>,
     <<"U+2CF3","U+2CF2">>, <<"U+2D00","U+10A0">>, <<"U+2D01","U+10A1">>,
     <<"U+2D02","U+10A2">>, <<"U+2D03","U+10A3">>, <<"U+2D04","U+10A4">>,
     <<"U+2D05","U+10A5">>, <<"U+2D06","U+10A6">>, <<"U+2D07","U+10A7">>,
     <<"U+2D08","U+10A8">>, <<"U+2D09","U+10A9">>, <<"U+2D0A","U+10AA">>,
     <<"U+2D0B","U+10AB">>, <<"U+2D0C","U+10AC">>, <<"U+2D0D","U+10AD">>,
     <<"U+2D0E","U+10AE">>, <<"U+2D0F","U+10AF">>, <<"U+2D10","U+10B0">>,
     <<"U+2D11","U+10B1">>, <<"U+2D12","U+10B2">>, <<"U+2D13","U+10B3">>,
     <<"U+2D14","U+10B4">>, <<"U+2D15","U+10B5">>, <<"U+2D16","U+10B6">>,
     <<"U+2D17","U+10B7">>, <<"U+2D18","U+10B8">>, <<"U+2D19","U+10B9">>,
     <<"U+2D1A","U+10BA">>, <<"U+2D1B","U+10BB">>, <<"U+2D1C","U+10BC">>,
     <<"U+2D1D","U+10BD">>, <<"U+2D1E","U+10BE">>, <<"U+2D1F","U+10BF">>,
     <<"U+2D20","U+10C0">>, <<"U+2D21","U+10C1">>, <<"U+2D22","U+10C2">>,
     <<"U+2D23","U+10C3">>, <<"U+2D24","U+10C4">>, <<"U+2D25","U+10C5">>,
     <<"U+2D27","U+10C7">>, <<"U+2D2D","U+10CD">>, <<"U+A641","U+A640">>,
     <<"U+A643","U+A642">>, <<"U+A645","U+A644">>, <<"U+A647","U+A646">>,
     <<"U+A649","U+A648">>, <<"U+A64B","U+A64A">>, <<"U+A64D","U+A64C">>,
     <<"U+A64F","U+A64E">>, <<"U+A651","U+A650">>, <<"U+A653","U+A652">>,
     <<"U+A655","U+A654">>, <<"U+A657","U+A656">>, <<"U+A659","U+A658">>,
     <<"U+A65B","U+A65A">>, <<"U+A65D","U+A65C">>, <<"U+A65F","U+A65E">>,
     <<"U+A661","U+A660">>, <<"U+A663","U+A662">>, <<"U+A665","U+A664">>,
     <<"U+A667","U+A666">>, <<"U+A669","U+A668">>, <<"U+A66B","U+A66A">>,
     <<"U+A66D","U+A66C">>, <<"U+A681","U+A680">>, <<"U+A683","U+A682">>,
     <<"U+A685","U+A684">>, <<"U+A687","U+A686">>, <<"U+A689","U+A688">>,
     <<"U+A68B","U+A68A">>, <<"U+A68D","U+A68C">>, <<"U+A68F","U+A68E">>,
     <<"U+A691","U+A690">>, <<"U+A693","U+A692">>, <<"U+A695","U+A694">>,
     <<"U+A697","U+A696">>, <<"U+A699","U+A698">>, <<"U+A69B","U+A69A">>,
     <<"U+A723","U+A722">>, <<"U+A725","U+A724">>, <<"U+A727","U+A726">>,
     <<"U+A729","U+A728">>, <<"U+A72B","U+A72A">>, <<"U+A72D","U+A72C">>,
     <<"U+A72F","U+A72E">>, <<"U+A733","U+A732">>, <<"U+A735","U+A734">>,
     <<"U+A737","U+A736">>, <<"U+A739","U+A738">>, <<"U+A73B","U+A73A">>,
     <<"U+A73D","U+A73C">>, <<"U+A73F","U+A73E">>, <<"U+A741","U+A740">>,
     <<"U+A743","U+A742">>, <<"U+A745","U+A744">>, <<"U+A747","U+A746">>,
     <<"U+A749","U+A748">>, <<"U+A74B","U+A74A">>, <<"U+A74D","U+A74C">>,
     <<"U+A74F","U+A74E">>, <<"U+A751","U+A750">>, <<"U+A753","U+A752">>,
     <<"U+A755","U+A754">>, <<"U+A757","U+A756">>, <<"U+A759","U+A758">>,
     <<"U+A75B","U+A75A">>, <<"U+A75D","U+A75C">>, <<"U+A75F","U+A75E">>,
     <<"U+A761","U+A760">>, <<"U+A763","U+A762">>, <<"U+A765","U+A764">>,
     <<"U+A767","U+A766">>, <<"U+A769","U+A768">>, <<"U+A76B","U+A76A">>,
     <<"U+A76D","U+A76C">>, <<"U+A76F","U+A76E">>, <<"U+A77A","U+A779">>,
     <<"U+A77C","U+A77B">>, <<"U+A77F","U+A77E">>, <<"U+A781","U+A780">>,
     <<"U+A783","U+A782">>, <<"U+A785","U+A784">>, <<"U+A787","U+A786">>,
     <<"U+A78C","U+A78B">>, <<"U+A791","U+A790">>, <<"U+A793","U+A792">>,
     <<"U+A794","U+A7C4">>, <<"U+A797","U+A796">>, <<"U+A799","U+A798">>,
     <<"U+A79B","U+A79A">>, <<"U+A79D","U+A79C">>, <<"U+A79F","U+A79E">>,
     <<"U+A7A1","U+A7A0">>, <<"U+A7A3","U+A7A2">>, <<"U+A7A5","U+A7A4">>,
     <<"U+A7A7","U+A7A6">>, <<"U+A7A9","U+A7A8">>, <<"U+A7B5","U+A7B4">>,
     <<"U+A7B7","U+A7B6">>, <<"U+A7B9","U+A7B8">>, <<"U+A7BB","U+A7BA">>,
     <<"U+A7BD","U+A7BC">>, <<"U+A7BF","U+A7BE">>, <<"U+A7C3","U+A7C2">>,
     <<"U+A7C8","U+A7C7">>, <<"U+A7CA","U+A7C9">>, <<"U+A7F6","U+A7F5">>,
     <<"U+AB53","U+A7B3">>, <<"U+AB70","U+13A0">>, <<"U+AB71","U+13A1">>,
     <<"U+AB72","U+13A2">>, <<"U+AB73","U+13A3">>, <<"U+AB74","U+13A4">>,
     <<"U+AB75","U+13A5">>, <<"U+AB76","U+13A6">>, <<"U+AB77","U+13A7">>,
     <<"U+AB78","U+13A8">>, <<"U+AB79","U+13A9">>, <<"U+AB7A","U+13AA">>,
     <<"U+AB7B","U+13AB">>, <<"U+AB7C","U+13AC">>, <<"U+AB7D","U+13AD">>,
     <<"U+AB7E","U+13AE">>, <<"U+AB7F","U+13AF">>, <<"U+AB80","U+13B0">>,
     <<"U+AB81","U+13B1">>, <<"U+AB82","U+13B2">>, <<"U+AB83","U+13B3">>,
     <<"U+AB84","U+13B4">>, <<"U+AB85","U+13B5">>, <<"U+AB86","U+13B6">>,
     <<"U+AB87","U+13B7">>, <<"U+AB88","U+13B8">>, <<"U+AB89","U+13B9">>,
     <<"U+AB8A","U+13BA">>, <<"U+AB8B","U+13BB">>, <<"U+AB8C","U+13BC">>,
     <<"U+AB8D","U+13BD">>, <<"U+AB8E","U+13BE">>, <<"U+AB8F","U+13BF">>,
     <<"U+AB90","U+13C0">>, <<"U+AB91","U+13C1">>, <<"U+AB92","U+13C2">>,
     <<"U+AB93","U+13C3">>, <<"U+AB94","U+13C4">>, <<"U+AB95","U+13C5">>,
     <<"U+AB96","U+13C6">>, <<"U+AB97","U+13C7">>, <<"U+AB98","U+13C8">>,
     <<"U+AB99","U+13C9">>, <<"U+AB9A","U+13CA">>, <<"U+AB9B","U+13CB">>,
     <<"U+AB9C","U+13CC">>, <<"U+AB9D","U+13CD">>, <<"U+AB9E","U+13CE">>,
     <<"U+AB9F","U+13CF">>, <<"U+ABA0","U+13D0">>, <<"U+ABA1","U+13D1">>,
     <<"U+ABA2","U+13D2">>, <<"U+ABA3","U+13D3">>, <<"U+ABA4","U+13D4">>,
     <<"U+ABA5","U+13D5">>, <<"U+ABA6","U+13D6">>, <<"U+ABA7","U+13D7">>,
     <<"U+ABA8","U+13D8">>, <<"U+ABA9","U+13D9">>, <<"U+ABAA","U+13DA">>,
     <<"U+ABAB","U+13DB">>, <<"U+ABAC","U+13DC">>, <<"U+ABAD","U+13DD">>,
     <<"U+ABAE","U+13DE">>, <<"U+ABAF","U+13DF">>, <<"U+ABB0","U+13E0">>,
     <<"U+ABB1","U+13E1">>, <<"U+ABB2","U+13E2">>, <<"U+ABB3","U+13E3">>,
     <<"U+ABB4","U+13E4">>, <<"U+ABB5","U+13E5">>, <<"U+ABB6","U+13E6">>,
     <<"U+ABB7","U+13E7">>, <<"U+ABB8","U+13E8">>, <<"U+ABB9","U+13E9">>,
     <<"U+ABBA","U+13EA">>, <<"U+ABBB","U+13EB">>, <<"U+ABBC","U+13EC">>,
     <<"U+ABBD","U+13ED">>, <<"U+ABBE","U+13EE">>, <<"U+ABBF","U+13EF">>,
     <<"U+FF41","U+FF21">>, <<"U+FF42","U+FF22">>, <<"U+FF43","U+FF23">>,
     <<"U+FF44","U+FF24">>, <<"U+FF45","U+FF25">>, <<"U+FF46","U+FF26">>,
     <<"U+FF47","U+FF27">>, <<"U+FF48","U+FF28">>, <<"U+FF49","U+FF29">>,
     <<"U+FF4A","U+FF2A">>, <<"U+FF4B","U+FF2B">>, <<"U+FF4C","U+FF2C">>,
     <<"U+FF4D","U+FF2D">>, <<"U+FF4E","U+FF2E">>, <<"U+FF4F","U+FF2F">>,
     <<"U+FF50","U+FF30">>, <<"U+FF51","U+FF31">>, <<"U+FF52","U+FF32">>,
     <<"U+FF53","U+FF33">>, <<"U+FF54","U+FF34">>, <<"U+FF55","U+FF35">>,
     <<"U+FF56","U+FF36">>, <<"U+FF57","U+FF37">>, <<"U+FF58","U+FF38">>,
     <<"U+FF59","U+FF39">>, <<"U+FF5A","U+FF3A">>, <<"U+10428","U+10400">>,
     <<"U+10429","U+10401">>, <<"U+1042A","U+10402">>, <<"U+1042B","U+10403">>,
     <<"U+1042C","U+10404">>, <<"U+1042D","U+10405">>, <<"U+1042E","U+10406">>,
     <<"U+1042F","U+10407">>, <<"U+10430","U+10408">>, <<"U+10431","U+10409">>,
     <<"U+10432","U+1040A">>, <<"U+10433","U+1040B">>, <<"U+10434","U+1040C">>,
     <<"U+10435","U+1040D">>, <<"U+10436","U+1040E">>, <<"U+10437","U+1040F">>,
     <<"U+10438","U+10410">>, <<"U+10439","U+10411">>, <<"U+1043A","U+10412">>,
     <<"U+1043B","U+10413">>, <<"U+1043C","U+10414">>, <<"U+1043D","U+10415">>,
     <<"U+1043E","U+10416">>, <<"U+1043F","U+10417">>, <<"U+10440","U+10418">>,
     <<"U+10441","U+10419">>, <<"U+10442","U+1041A">>, <<"U+10443","U+1041B">>,
     <<"U+10444","U+1041C">>, <<"U+10445","U+1041D">>, <<"U+10446","U+1041E">>,
     <<"U+10447","U+1041F">>, <<"U+10448","U+10420">>, <<"U+10449","U+10421">>,
     <<"U+1044A","U+10422">>, <<"U+1044B","U+10423">>, <<"U+1044C","U+10424">>,
     <<"U+1044D","U+10425">>, <<"U+1044E","U+10426">>, <<"U+1044F","U+10427">>,
     <<"U+104D8","U+104B0">>, <<"U+104D9","U+104B1">>, <<"U+104DA","U+104B2">>,
     <<"U+104DB","U+104B3">>, <<"U+104DC","U+104B4">>, <<"U+104DD","U+104B5">>,
     <<"U+104DE","U+104B6">>, <<"U+104DF","U+104B7">>, <<"U+104E0","U+104B8">>,
     <<"U+104E1","U+104B9">>, <<"U+104E2","U+104BA">>, <<"U+104E3","U+104BB">>,
     <<"U+104E4","U+104BC">>, <<"U+104E5","U+104BD">>, <<"U+104E6","U+104BE">>,
     <<"U+104E7","U+104BF">>, <<"U+104E8","U+104C0">>, <<"U+104E9","U+104C1">>,
     <<"U+104EA","U+104C2">>, <<"U+104EB","U+104C3">>, <<"U+104EC","U+104C4">>,
     <<"U+104ED","U+104C5">>, <<"U+104EE","U+104C6">>, <<"U+104EF","U+104C7">>,
     <<"U+104F0","U+104C8">>, <<"U+104F1","U+104C9">>, <<"U+104F2","U+104CA">>,
     <<"U+104F3","U+104CB">>, <<"U+104F4","U+104CC">>, <<"U+104F5","U+104CD">>,
     <<"U+104F6","U+104CE">>, <<"U+104F7","U+104CF">>, <<"U+104F8","U+104D0">>,
     <<"U+104F9","U+104D1">>, <<"U+104FA","U+104D2">>, <<"U+104FB","U+104D3">>,
     <<"U+10CC0","U+10C80">>, <<"U+10CC1","U+10C81">>, <<"U+10CC2","U+10C82">>,
     <<"U+10CC3","U+10C83">>, <<"U+10CC4","U+10C84">>, <<"U+10CC5","U+10C85">>,
     <<"U+10CC6","U+10C86">>, <<"U+10CC7","U+10C87">>, <<"U+10CC8","U+10C88">>,
     <<"U+10CC9","U+10C89">>, <<"U+10CCA","U+10C8A">>, <<"U+10CCB","U+10C8B">>,
     <<"U+10CCC","U+10C8C">>, <<"U+10CCD","U+10C8D">>, <<"U+10CCE","U+10C8E">>,
     <<"U+10CCF","U+10C8F">>, <<"U+10CD0","U+10C90">>, <<"U+10CD1","U+10C91">>,
     <<"U+10CD2","U+10C92">>, <<"U+10CD3","U+10C93">>, <<"U+10CD4","U+10C94">>,
     <<"U+10CD5","U+10C95">>, <<"U+10CD6","U+10C96">>, <<"U+10CD7","U+10C97">>,
     <<"U+10CD8","U+10C98">>, <<"U+10CD9","U+10C99">>, <<"U+10CDA","U+10C9A">>,
     <<"U+10CDB","U+10C9B">>, <<"U+10CDC","U+10C9C">>, <<"U+10CDD","U+10C9D">>,
     <<"U+10CDE","U+10C9E">>, <<"U+10CDF","U+10C9F">>, <<"U+10CE0","U+10CA0">>,
     <<"U+10CE1","U+10CA1">>, <<"U+10CE2","U+10CA2">>, <<"U+10CE3","U+10CA3">>,
     <<"U+10CE4","U+10CA4">>, <<"U+10CE5","U+10CA5">>, <<"U+10CE6","U+10CA6">>,
     <<"U+10CE7","U+10CA7">>, <<"U+10CE8","U+10CA8">>, <<"U+10CE9","U+10CA9">>,
     <<"U+10CEA","U+10CAA">>, <<"U+10CEB","U+10CAB">>, <<"U+10CEC","U+10CAC">>,
     <<"U+10CED","U+10CAD">>, <<"U+10CEE","U+10CAE">>, <<"U+10CEF","U+10CAF">>,
     <<"U+10CF0","U+10CB0">>, <<"U+10CF1","U+10CB1">>, <<"U+10CF2","U+10CB2">>,
     <<"U+118C0","U+118A0">>, <<"U+118C1","U+118A1">>, <<"U+118C2","U+118A2">>,
     <<"U+118C3","U+118A3">>, <<"U+118C4","U+118A4">>, <<"U+118C5","U+118A5">>,
     <<"U+118C6","U+118A6">>, <<"U+118C7","U+118A7">>, <<"U+118C8","U+118A8">>,
     <<"U+118C9","U+118A9">>, <<"U+118CA","U+118AA">>, <<"U+118CB","U+118AB">>,
     <<"U+118CC","U+118AC">>, <<"U+118CD","U+118AD">>, <<"U+118CE","U+118AE">>,
     <<"U+118CF","U+118AF">>, <<"U+118D0","U+118B0">>, <<"U+118D1","U+118B1">>,
     <<"U+118D2","U+118B2">>, <<"U+118D3","U+118B3">>, <<"U+118D4","U+118B4">>,
     <<"U+118D5","U+118B5">>, <<"U+118D6","U+118B6">>, <<"U+118D7","U+118B7">>,
     <<"U+118D8","U+118B8">>, <<"U+118D9","U+118B9">>, <<"U+118DA","U+118BA">>,
     <<"U+118DB","U+118BB">>, <<"U+118DC","U+118BC">>, <<"U+118DD","U+118BD">>,
     <<"U+118DE","U+118BE">>, <<"U+118DF","U+118BF">>, <<"U+16E60","U+16E40">>,
     <<"U+16E61","U+16E41">>, <<"U+16E62","U+16E42">>, <<"U+16E63","U+16E43">>,
     <<"U+16E64","U+16E44">>, <<"U+16E65","U+16E45">>, <<"U+16E66","U+16E46">>,
     <<"U+16E67","U+16E47">>, <<"U+16E68","U+16E48">>, <<"U+16E69","U+16E49">>,
     <<"U+16E6A","U+16E4A">>, <<"U+16E6B","U+16E4B">>, <<"U+16E6C","U+16E4C">>,
     <<"U+16E6D","U+16E4D">>, <<"U+16E6E","U+16E4E">>, <<"U+16E6F","U+16E4F">>,
     <<"U+16E70","U+16E50">>, <<"U+16E71","U+16E51">>, <<"U+16E72","U+16E52">>,
     <<"U+16E73","U+16E53">>, <<"U+16E74","U+16E54">>, <<"U+16E75","U+16E55">>,
     <<"U+16E76","U+16E56">>, <<"U+16E77","U+16E57">>, <<"U+16E78","U+16E58">>,
     <<"U+16E79","U+16E59">>, <<"U+16E7A","U+16E5A">>, <<"U+16E7B","U+16E5B">>,
     <<"U+16E7C","U+16E5C">>, <<"U+16E7D","U+16E5D">>, <<"U+16E7E","U+16E5E">>,
     <<"U+16E7F","U+16E5F">>, <<"U+1E922","U+1E900">>, <<"U+1E923","U+1E901">>,
     <<"U+1E924","U+1E902">>, <<"U+1E925","U+1E903">>, <<"U+1E926","U+1E904">>,
     <<"U+1E927","U+1E905">>, <<"U+1E928","U+1E906">>, <<"U+1E929","U+1E907">>,
     <<"U+1E92A","U+1E908">>, <<"U+1E92B","U+1E909">>, <<"U+1E92C","U+1E90A">>,
     <<"U+1E92D","U+1E90B">>, <<"U+1E92E","U+1E90C">>, <<"U+1E92F","U+1E90D">>,
     <<"U+1E930","U+1E90E">>, <<"U+1E931","U+1E90F">>, <<"U+1E932","U+1E910">>,
     <<"U+1E933","U+1E911">>, <<"U+1E934","U+1E912">>, <<"U+1E935","U+1E913">>,
     <<"U+1E936","U+1E914">>, <<"U+1E937","U+1E915">>, <<"U+1E938","U+1E916">>,
     <<"U+1E939","U+1E917">>, <<"U+1E93A","U+1E918">>, <<"U+1E93B","U+1E919">>,
     <<"U+1E93C","U+1E91A">>, <<"U+1E93D","U+1E91B">>, <<"U+1E93E","U+1E91C">>,
     <<"U+1E93F","U+1E91D">>, <<"U+1E940","U+1E91E">>, <<"U+1E941","U+1E91F">>,
     <<"U+1E942","U+1E920">>, <<"U+1E943","U+1E921">>}

\* unicode.ToUpper: the pairs Unicode 14.0 added; the tables of Unicode
\* 15.0 have them and no other addition
UpperPairsSince14 ==
    {<<"U+2C5F","U+2C2F">>, <<"U+A7C1","U+A7C0">>, <<"U+A7D1","U+A7D0">>,
     <<"U+A7D7","U+A7D6">>, <<"U+A7D9","U+A7D8">>, <<"U+10597","U+10570">>,
     <<"U+10598","U+10571">>, <<"U+10599","U+10572">>, <<"U+1059A","U+10573">>,
     <<"U+1059B","U+10574">>, <<"U+1059C","U+10575">>, <<"U+1059D","U+10576">>,
     <<"U+1059E","U+10577">>, <<"U+1059F","U+10578">>, <<"U+105A0","U+10579">>,
     <<"U+105A1","U+1057A">>, <<"U+105A3","U+1057C">>, <<"U+105A4","U+1057D">>,
     <<"U+105A5","U+1057E">>, <<"U+105A6","U+1057F">>, <<"U+105A7","U+10580">>,
     <<"U+105A8","U+10581">>, <<"U+105A9","U+10582">>, <<"U+105AA","U+10583">>,
     <<"U+105AB","U+10584">>, <<"U+105AC","U+10585">>, <<"U+105AD","U+10586">>,
     <<"U+105AE","U+10587">>, <<"U+105AF","U+10588">>, <<"U+105B0","U+10589">>,
     <<"U+105B1","U+1058A">>, <<"U+105B3","U+1058C">>, <<"U+105B4","U+1058D">>,
     <<"U+105B5","U+1058E">>, <<"U+105B6","U+1058F">>, <<"U+105B7","U+10590">>,
     <<"U+105B8","U+10591">>, <<"U+105B9","U+10592">>, <<"U+105BB","U+10594">>,
     <<"U+105BC","U+10595">>}

UpperOf13 == CaseTable(UpperPairs)
UpperOf15 == CaseTable(UpperPairs \cup UpperPairsSince14)

\* unicode.ToUpper of the runes it changes, in the build
UpperOf == IF unicodeVersion = "15.0" THEN UpperOf15 ELSE UpperOf13

\* the query in upper case, as strings.ToUpper gives it; the program does
\* not call it: it generates queries for generateResponse
ToUpper(s) ==
    [i \in 1..Len(s) |-> IF s[i] \in DOMAIN UpperOf THEN UpperOf[s[i]] ELSE s[i]]

\* the query in the other letter cases
CaseVariants(q) == {ToLower(q), ToUpper(q)}

\* a call that has not been made yet
NewCall(q, o) ==
    [query |-> q, calls |-> 0, first |-> <<>>, response |-> <<>>,
     other |-> o, otherCalled |-> FALSE, otherResponse |-> <<>>]

InitGen ==
    /\ SessionInit
    /\ call \in UNION {{NewCall(q, o) : o \in CaseVariants(q)} : q \in Queries}

\* response := generateResponse(query)
Generate ==
    /\ call.calls < MaxCalls
    /\ \E response \in {generateResponse(call.query)} :
          call' = [call EXCEPT
                   !.calls    = call.calls + 1,
                   !.first    = IF call.calls = 0 THEN response ELSE call.first,
                   !.response = response]
    /\ UNCHANGED <<responses, textarea, viewport, width, height, environment,
                   ready, unicodeVersion, cmd, pasting, loop, matched, hist>>

\* otherResponse := generateResponse(other)
GenerateOther ==
    /\ ~call.otherCalled
    /\ call' = [call EXCEPT !.otherCalled = TRUE,
                            !.otherResponse = generateResponse(call.other)]
    /\ UNCHANGED <<responses, textarea, viewport, width, height, environment,
                   ready, unicodeVersion, cmd, pasting, loop, matched, hist>>

\* the session goes on between the calls
NextGen == Generate \/ GenerateOther \/ ClearKey

SpecGen == InitGen /\ [][NextGen]_vars

\* ================================================================ claims
\* How the claims read a transcript entry: its speaker is told by the
\* prefix handleQuery gives it, its text is what follows the prefix.
UserPrefix == <<"Y","o","u",":"," ">>
AssistantPrefix == <<"A","s","s","i","s","t","a","n","t",":"," ">>
HasPrefix(s, p) == Len(s) >= Len(p) /\ SubSeq(s, 1, Len(p)) = p
IsTurn(t, prefix, text) == HasPrefix(t, prefix) /\ SubSeq(t, Len(prefix) + 1, Len(t)) = text

\* the transcript after is the transcript before plus one User Turn carrying
\* q and one Assistant Turn carrying generate(q), in that order
AppendsPair(before, after, q) ==
    /\ Len(after) = Len(before) + 2
    /\ SubSeq(after, 1, Len(before)) = before
    /\ IsTurn(after[Len(before) + 1], UserPrefix, q)
    /\ IsTurn(after[Len(before) + 2], AssistantPrefix, generateResponse(q))

\* the fixed query the claims bind to each quick-action key
QuickQueryOf(msg) ==
    CASE msg.Type = "KeyF1" -> example1Query
      [] msg.Type = "KeyF2" -> example2Query
      [] msg.Type = "KeyF3" -> example3Query

\* C1: a Send key event received in a non-closed state with a non-empty
\* Input Buffer b makes the transcript the old transcript followed by a User
\* Turn carrying b and an Assistant Turn carrying generate(b), nothing else.
C1_SendAppendsPair ==
    [][\A msg \in SendKeys :
         (textarea.value # <<>> /\ Step(msg))
            => AppendsPair(responses, responses', textarea.value)]_vars

\* a Send of the typed text "pv" has just produced the storage document
C1_Witness ==
    /\ matched = "send" /\ cmd = "nil"
    /\ Len(responses) = 3
    /\ IsTurn(responses[2], UserPrefix, <<"p","v">>)
    /\ IsTurn(responses[3], AssistantPrefix, StorageDocument)

\* C2: a Send key event received with an empty Input Buffer appends no Turn
\* and leaves transcript, viewport content and Input Buffer as they were.
C2_EmptySendChangesNothing ==
    [][\A msg \in SendKeys :
         (textarea.value = <<>> /\ Step(msg))
            => /\ responses' = responses
               /\ viewport'.content = viewport.content
               /\ textarea'.value = textarea.value]_vars

\* a Send has just been received with nothing typed, after earlier Turns
C2_Witness ==
    matched = "send" /\ cmd = "Batch" /\ textarea.value = <<>> /\ Len(responses) > 1

\* C3: after a Send key event that fired with a non-empty Input Buffer the
\* Input Buffer is the empty string.
C3_SendClearsInput ==
    [][\A msg \in SendKeys :
         (textarea.value # <<>> /\ Step(msg)) => textarea'.value = <<>>]_vars

\* a Send of typed text has just run and the buffer is empty
C3_Witness ==
    matched = "send" /\ cmd = "nil" /\ textarea.value = <<>> /\ ready

\* C4 as stated: a QuickAction key event never modifies the Input Buffer.
C4_QuickActionKeepsInput ==
    [][\A msg \in ExampleKeys : Step(msg) => textarea'.value = textarea.value]_vars

\* C4 as amended: a QuickAction key event leaves the Input Buffer empty,
\* whatever it held (so it is unchanged only when it was already empty).
C4_QuickActionClearsInput ==
    [][\A msg \in ExampleKeys : Step(msg) => textarea'.value = <<>>]_vars

\* a quick action has just run and the buffer is empty
C4_Witness ==
    matched \in {"example1", "example2", "example3"} /\ textarea.value = <<>>

\* C5: a QuickAction[i] key event appends exactly one pair: a User Turn
\* carrying the query bound to key i and an Assistant Turn carrying
\* generate of that query, whatever the Input Buffer holds.
C5_QuickActionAppendsPair ==
    [][\A msg \in ExampleKeys :
         Step(msg) => AppendsPair(responses, responses', QuickQueryOf(msg))]_vars

\* f2 has just run on a transcript that already held a pair
C5_Witness ==
    /\ matched = "example2"
    /\ Len(responses) = 5
    /\ IsTurn(responses[4], UserPrefix, example2Query)
    /\ IsTurn(responses[5], AssistantPrefix, ServiceDocument)

\* C6: as long as no Clear and no QuickAction was received, the transcript
\* length is 1 + 2N, N the number of Sends received with non-empty input.
C6_LengthAfterSends ==
    hist.sendOnly => Len(responses) = 1 + 2 * hist.sends

\* two Sends, no Clear, no QuickAction
C6_Witness ==
    hist.sendOnly /\ hist.sends = 2 /\ Len(responses) = 5

\* C7: immediately after a Clear key event the transcript length is 1.
C7_ClearLeavesOneTurn ==
    [][\A msg \in ClearKeys : Step(msg) => Len(responses') = 1]_vars

\* a Clear has just run
C7_Witness ==
    matched = "clear" /\ Len(responses) = 1

\* C8: in every reachable state the transcript holds at least one Turn.
C8_TranscriptNeverEmpty ==
    Len(responses) >= 1

\* states after a Clear and after Sends: the transcript shrank and grew
C8_Witness ==
    matched = "clear" /\ responses = <<clearedMessage>> /\ ~hist.sendOnly /\ ready

\* the precedence the key map is claimed to follow
Precedence == <<"quit", "clear", "send", "example1", "example2", "example3">>
MatchingActions(msg) ==
    {i \in 1..Len(Precedence) : Matches(msg, newAssistantCommands[Precedence[i]])}
FirstAction(msg) ==
    IF MatchingActions(msg) = {} THEN "none"
    ELSE Precedence[CHOOSE i \in MatchingActions(msg) :
                        \A j \in MatchingActions(msg) : i <= j]

\* C9: every key event fires at most one action, the first in the
\* precedence Quit > Clear > Send > QuickAction[1] > [2] > [3] whose binding
\* matches the key (none when no binding matches).
C9_FirstMatchFires ==
    [][\A msg \in AllKeys : Step(msg) => matched' = FirstAction(msg)]_vars

\* the last of the six actions has just fired
C9_Witness ==
    matched = "example3" /\ cmd = "nil"

\* C10: a Quit key event closes the session from every non-closed state,
\* and once a Quit key event was processed no step changes the transcript,
\* the Input Buffer or any other state of the session.
C10_QuitClosesAtOnce ==
    /\ [](Running => \A msg \in QuitKeys : ENABLED Step(msg))
    /\ [][\A msg \in QuitKeys : Step(msg) => cmd' = "Quit" /\ Quitting']_vars
    /\ [][loop # "running"
             => UNCHANGED <<responses, textarea, viewport, width, height,
                            environment, ready>>]_vars

\* the resize events and the events that are no resize
ResizeMsgs == {WindowSizeMsg(s[1], s[2]) : s \in Sizes}
OtherMsgs == AllKeys \cup {BlinkMsg, UnexpectedMsg}

\* C11: the first resize event (W, H), received while Uninitialized, records
\* width = W and height = H, sizes the viewport and the Input Buffer from
\* (W, H) and makes the session Ready; no other event sets ready.
C11_FirstResizeMakesReady ==
    /\ [][\A msg \in ResizeMsgs :
            (~ready /\ Step(msg))
               => /\ width' = msg.Width /\ height' = msg.Height
                  /\ viewport'.Width = msg.Width - 4
                  /\ viewport'.Height = msg.Height - 10
                  /\ textarea'.width = msg.Width - 4
                  /\ ready']_vars
    /\ [][\A msg \in OtherMsgs : Step(msg) => ready' = ready]_vars

\* the session became Ready on a first resize to 100 x 30
C11_Witness ==
    /\ ready /\ width = 100 /\ height = 30
    /\ viewport.Width = 96 /\ viewport.Height = 20 /\ textarea.width = 96

\* C12: every resize event (W, H) received while Ready sizes the viewport
\* and the Input Buffer from the new (W, H) as the first resize does, and
\* leaves the Ready state, the transcript and the buffer contents unchanged.
C12_ResizeWhileReadyResizes ==
    [][\A msg \in ResizeMsgs :
         (ready /\ Step(msg))
            => /\ viewport'.Width = msg.Width - 4
               /\ viewport'.Height = msg.Height - 10
               /\ textarea'.width = msg.Width - 4
               /\ ready' /\ responses' = responses
               /\ textarea'.value = textarea.value]_vars
\* the key events that attempt an insertion into the Input Buffer
InsertKeys == TypeKeys \cup PasteKeys \cup EnterKeys

\* C13: the Input Buffer never holds more than 500 characters; with 500
\* characters in it an insertion is accepted as any other key event is,
\* leaves the buffer unchanged and does not end the session.
C13_InputWithinLimit ==
    /\ [](Len(textarea.value) <= 500)
    /\ [](Len(textarea.value) = 500
            => \A msg \in InsertKeys : ENABLED StepAny(msg))
    /\ [][\A msg \in InsertKeys :
            (Len(textarea.value) = 500 /\ StepAny(msg))
               => textarea'.value = textarea.value /\ cmd' # "Quit"]_vars

\* ------------------------------------------- claims about generateResponse
\* generateResponse has returned for the query
Called == call.calls > 0

\* the query of the call, in lower case
asked == ToLower(call.query)

\* the topic rules in the order the specification lists them
TopicRules ==
    << [keywords |-> {kw_deployment, kw_deploy}, template |-> DeploymentDocument],
       [keywords |-> {kw_service}, template |-> ServiceDocument],
       [keywords |-> {kw_ingress}, template |-> IngressDocument],
       [keywords |-> {kw_pod}, template |-> PodDocument],
       [keywords |-> {kw_storage, kw_volume, kw_pv}, template |-> StorageDocument] >>

MatchingRules ==
    {i \in DOMAIN TopicRules : \E k \in TopicRules[i].keywords : Contains(asked, k)}

FirstRule == CHOOSE i \in MatchingRules : \A j \in MatchingRules : i <= j

\* texts the documents are looked up for
createDeploymentFence ==
    <<"U+0060","U+0060","U+0060","b","a","s","h","\n">>
    \o <<"k","u","b","e","c","t","l"," ","c","r","e","a","t","e"," ">>
    \o <<"d","e","p","l","o","y","m","e","n","t"," ","m","y","-","a","p","p"," ">>
    \o <<"-","-","i","m","a","g","e","=","n","g","i","n","x",":","l","a","t","e","s","t"," ">>
    \o <<"-","-","r","e","p","l","i","c","a","s","=","3","\n">>
    \o <<"U+0060","U+0060","U+0060","\n">>
prerequisitesHeading ==
    <<"#","#"," ","P","r","e","r","e">>
    \o <<"q","u","i","s","i","t","e","s">>
kindService == <<"k","i","n","d",":"," ","S","e","r","v","i","c","e">>
ingressAnnotation ==
    <<"n","g","i","n","x",".","i","n","g","r","e","s","s">>
    \o <<".","k","u","b","e","r","n","e","t","e","s",".","i","o">>
kubectlApply == <<"k","u","b","e","c","t","l"," ","a","p","p","l","y">>
kubectlLogs == <<"k","u","b","e","c","t","l"," ","l","o","g","s">>
persistentVolume ==
    <<"P","e","r","s","i","s","t","e">>
    \o <<"n","t","V","o","l","u","m","e">>
persistentVolumeClaim ==
    <<"P","e","r","s","i","s","t","e","n","t">>
    \o <<"V","o","l","u","m","e","C","l","a","i","m">>
upperDeployment == <<"D","E","P","L","O","Y","M","E","N","T">>

\* C14: the document returned is the template of the first topic rule, in
\* the order deployment/deploy, service, ingress, pod, storage/volume/pv,
\* that has a keyword in the lowercased query, whatever later rules match.
C14_FirstRuleWins ==
    (Called /\ MatchingRules # {})
        => call.response = TopicRules[FirstRule].template

\* a query with the service keyword and a keyword of a later rule got the
\* service document
C14_Witness ==
    /\ Called
    /\ Cardinality(MatchingRules) >= 2
    /\ FirstRule = 2
    /\ call.response = ServiceDocument

\* C15: a query with none of the topic keywords in it (compared in lower
\* case), the empty query included, gets the fallback document, and a
\* repeated call returns the identical document.
C15_FallbackDocument ==
    (Called /\ MatchingRules = {})
        => /\ call.response = DefaultResponse
           /\ call.first = call.response

\* the empty query was passed twice and got the fallback document
C15_Witness ==
    /\ call.calls = 2
    /\ call.query = <<>>
    /\ call.first = DefaultResponse
    /\ call.response = DefaultResponse

\* C16: a query with "deployment" or "deploy" in it, in any letter case,
\* gets a document with a kubectl create deployment fence (image
\* nginx:latest) and a Prerequisites section.
C16_DeploymentDocument ==
    (Called /\ (Contains(asked, kw_deployment) \/ Contains(asked, kw_deploy)))
        => /\ Contains(call.response, createDeploymentFence)
           /\ Contains(call.response, prerequisitesHeading)

\* an upper-case DEPLOYMENT query got the fence and the section
C16_Witness ==
    /\ Called
    /\ Contains(call.query, upperDeployment)
    /\ Contains(call.response, createDeploymentFence)
    /\ Contains(call.response, prerequisitesHeading)

\* C17 as stated: every query with "service" in it, whatever other
\* keywords it has, gets a document that contains "kind: Service".
C17_ServiceAlwaysKindService ==
    (Called /\ Contains(asked, kw_service))
        => Contains(call.response, kindService)

\* C17: a query with "service" in it and neither "deployment" nor "deploy"
\* (compared in lower case) gets a document that contains "kind: Service",
\* whatever keywords of later rules it has.
C17_ServiceWithoutDeploy ==
    (Called /\ Contains(asked, kw_service)
            /\ ~Contains(asked, kw_deployment) /\ ~Contains(asked, kw_deploy))
        => Contains(call.response, kindService)

\* a query with service and ingress in it got "kind: Service"
C17_Witness ==
    /\ Called
    /\ Contains(asked, kw_service)
    /\ Contains(asked, kw_ingress)
    /\ Contains(call.response, kindService)

\* C18 as stated: every query with "ingress" in it, whatever other
\* keywords it has, gets a document that contains
\* "nginx.ingress.kubernetes.io".
C18_IngressAlwaysAnnotation ==
    (Called /\ Contains(asked, kw_ingress))
        => Contains(call.response, ingressAnnotation)

\* C18: a query with "ingress" in it and none of "deployment", "deploy" and
\* "service" (compared in lower case) gets a document that contains
\* "nginx.ingress.kubernetes.io", whatever keywords of later rules it has.
C18_IngressWithoutEarlierRules ==
    (Called /\ Contains(asked, kw_ingress)
            /\ ~Contains(asked, kw_deployment) /\ ~Contains(asked, kw_deploy)
            /\ ~Contains(asked, kw_service))
        => Contains(call.response, ingressAnnotation)

\* a query with ingress and pod in it got the ingress annotation
C18_Witness ==
    /\ Called
    /\ Contains(asked, kw_ingress)
    /\ Contains(asked, kw_pod)
    /\ Contains(call.response, ingressAnnotation)

\* C19: a query with "pod" in it and no deployment/deploy, service or
\* ingress keyword gets the pod document, with kubectl apply and kubectl
\* logs in it, not the fallback document.
C19_PodDocument ==
    (Called /\ Contains(asked, kw_pod)
            /\ ~Contains(asked, kw_deployment) /\ ~Contains(asked, kw_deploy)
            /\ ~Contains(asked, kw_service) /\ ~Contains(asked, kw_ingress))
        => /\ call.response = PodDocument
           /\ call.response # DefaultResponse
           /\ Contains(call.response, kubectlApply)
           /\ Contains(call.response, kubectlLogs)

\* a query with pod and storage in it got the pod document
C19_Witness ==
    /\ Called
    /\ Contains(asked, kw_pod)
    /\ Contains(asked, kw_storage)
    /\ call.response = PodDocument
    /\ Contains(call.response, kubectlLogs)

\* C20: a query with "storage", "volume" or "pv" in it and no
\* deployment/deploy, service, ingress or pod keyword gets the storage
\* document, with PersistentVolume and PersistentVolumeClaim in it, not the
\* fallback document.
C20_StorageDocument ==
    (Called /\ (Contains(asked, kw_storage) \/ Contains(asked, kw_volume)
                  \/ Contains(asked, kw_pv))
            /\ ~Contains(asked, kw_deployment) /\ ~Contains(asked, kw_deploy)
            /\ ~Contains(asked, kw_service) /\ ~Contains(asked, kw_ingress)
            /\ ~Contains(asked, kw_pod))
        => /\ call.response = StorageDocument
           /\ call.response # DefaultResponse
           /\ Contains(call.response, persistentVolume)
           /\ Contains(call.response, persistentVolumeClaim)

\* the query "pv" got the storage document
C20_Witness ==
    /\ Called
    /\ call.query = kw_pv
    /\ call.response = StorageDocument
    /\ Contains(call.response, persistentVolumeClaim)

\* C21 as stated: the document returned for a query that matches a topic
\* rule has the raw query in it, and two different queries that match the
\* same rule get different documents.
C21_QueryInterpolated ==
    /\ (Called /\ MatchingRules # {}) => Contains(call.response, call.query)
    /\ (Called /\ call.otherCalled /\ MatchingRules # {}
               /\ call.other # call.query)
          => call.otherResponse # call.response

\* the places of the User Turns in the transcript
UserTurns == {i \in 2..(Len(responses) - 1) : i % 2 = 0}

\* the query of the User Turn at place i
QueryOfTurn(i) == SubSeq(responses[i], Len(UserPrefix) + 1, Len(responses[i]))

C23_CaseInsensitive ==
    (Called /\ call.otherCalled /\ ToLower(call.other) = ToLower(call.query))
        => call.otherResponse = call.response

\* a query with a capital I with dot above (U+0130) and its lower-case form
\* both got the service document
C23_Witness ==
    /\ Called
    /\ call.otherCalled
    /\ \E i \in 1..Len(call.query) : call.query[i] = "U+0130"
    /\ call.other = ToLower(call.query)
    /\ call.response = ServiceDocument
    /\ call.otherResponse = ServiceDocument

\* C23 as stated: a query and the same query in upper case or in lower case
\* get the same document.
C23_AnyLetterCase ==
    (Called /\ call.otherCalled /\ call.other \in CaseVariants(call.query))
        => call.otherResponse = call.response

\* the document each quick-action key is named for
QuickActionTopic ==
    [KeyF1 |-> DeploymentDocument, KeyF2 |-> ServiceDocument,
     KeyF3 |-> IngressDocument]

\* the example bindings a key event matches
ExampleBindings(msg) ==
    {b \in {"example1", "example2", "example3"} :
        Matches(msg, newAssistantCommands[b])}

\* C24: the three quick-action keys are bound one to one to three distinct
\* fixed queries, and the Assistant Turn a quick action appends carries the
\* document of its topic: f1 deployment, f2 service, f3 ingress.
C24_QuickActionsResolve ==
    /\ [](/\ Cardinality({QuickQueryOf(msg) : msg \in ExampleKeys}) = 3
          /\ \A msg \in ExampleKeys : Cardinality(ExampleBindings(msg)) = 1
          /\ \A m1, m2 \in ExampleKeys :
                m1 # m2 => ExampleBindings(m1) # ExampleBindings(m2))
    /\ [][\A msg \in ExampleKeys :
            Step(msg) =>
              /\ IsTurn(responses'[Len(responses') - 1], UserPrefix,
                        QuickQueryOf(msg))
              /\ IsTurn(responses'[Len(responses')], AssistantPrefix,
                        QuickActionTopic[msg.Type])]_vars

\* f3 has just run and the last Turn carries the ingress document
C24_Witness ==
    /\ matched = "example3"
    /\ IsTurn(responses[Len(responses) - 1], UserPrefix, example3Query)
    /\ IsTurn(responses[Len(responses)], AssistantPrefix, IngressDocument)

\* the positions where a fence line of the document starts
FenceStarts(s) ==
    {i \in 1..(Len(s) - 2) :
        /\ i = 1 \/ s[i - 1] = "\n"
        /\ s[i] = "U+0060" /\ s[i + 1] = "U+0060" /\ s[i + 2] = "U+0060"}

RECURSIVE RestOfLine(_, _)
\* the text from position j to the end of its line
RestOfLine(s, j) ==
    IF j > Len(s) \/ s[j] = "\n" THEN <<>>
    ELSE <<s[j]>> \o RestOfLine(s, j + 1)

\* the language tag of the fence line at i: the rest of its line
FenceTag(s, i) == RestOfLine(s, i + 3)

\* the fence lines come in pairs of an opening line with a language tag and
\* a closing line without one, and the opening lines carry the same tag
WellFormedFences(s) ==
    \E starts \in {FenceStarts(s)} :
    \E opens \in {{i \in starts : Cardinality({j \in starts : j <= i}) % 2 = 1}} :
    \E tags \in {{FenceTag(s, i) : i \in opens}} :
       /\ Cardinality(starts) % 2 = 0
       /\ <<>> \notin tags
       /\ Cardinality(tags) <= 1
       /\ \A i \in starts \ opens : FenceTag(s, i) = <<>>

\* C25: every document generateResponse returns has well-formed fences:
\* fence lines in open/close pairs, none nested or left open, every opening
\* fence with the same language tag.
C25_FencesWellFormed ==
    /\ Called => WellFormedFences(call.response)
    /\ call.otherCalled => WellFormedFences(call.otherResponse)

\* the ingress document was returned: five bash fences, opened and closed
C25_Witness ==
    /\ Called
    /\ call.response = IngressDocument
    /\ Cardinality(FenceStarts(call.response)) = 10
    /\ \A i \in FenceStarts(call.response) :
          FenceTag(call.response, i) \in {<<>>, <<"b","a","s","h">>}

\* C26: a newly constructed session is not ready, its transcript is the one
\* welcome Turn, its Input Buffer is empty and it stores the environment it
\* was constructed with; no event changes the stored environment.
C26_NewSession ==
    /\ [](cmd = "Blink" =>
            /\ ~ready
            /\ responses = <<welcomeMessage>>
            /\ textarea.value = <<>>)
    /\ [](environment = hist.env)
    /\ [][environment' = environment]_vars

\* a session launched for azure still stores azure after resizes and queries
C26_Witness ==
    /\ hist.env = "azure"
    /\ environment = "azure"
    /\ ready
    /\ Len(responses) = 5

\* C27: in every reachable state the viewport content is the Turns of the
\* transcript joined in order by a blank line.
C27_ViewportShowsTranscript ==
    viewport.content = Join(responses, blankLine)

\* a Clear and then a Send: the viewport holds the three Turns joined
C27_Witness ==
    /\ Len(responses) = 3
    /\ responses[1] = clearedMessage
    /\ matched = "send"
    /\ viewport.content =
          responses[1] \o blankLine \o responses[2] \o blankLine \o responses[3]

\* the events that are no Clear key event
NonClearMsgs == (ResizeMsgs \cup OtherMsgs) \ ClearKeys

IsPrefix(s, t) == Len(s) <= Len(t) /\ SubSeq(t, 1, Len(s)) = s

\* C28: for every event other than a Clear key event the transcript before
\* the event is a prefix of the transcript after it.
C28_AppendOnly ==
    [][\A msg \in NonClearMsgs : Step(msg) => IsPrefix(responses, responses')]_vars

\* two Sends after the welcome Turn, which is still the first Turn
C28_Witness ==
    /\ Len(responses) = 5
    /\ responses[1] = welcomeMessage
    /\ matched = "send"
    /\ hist.sends = 2

\* C29: in every state between events the transcript length is odd and
\* after the first Turn the Turns alternate User, Assistant.
C29_TurnsAlternate ==
    /\ Len(responses) % 2 = 1
    /\ \A i \in 2..Len(responses) :
          IF i % 2 = 0 THEN HasPrefix(responses[i], UserPrefix)
          ELSE HasPrefix(responses[i], AssistantPrefix)

\* a quick action and then a Send: User, Assistant, User, Assistant
C29_Witness ==
    /\ Len(responses) = 5
    /\ matched = "send"
    /\ IsTurn(responses[2], UserPrefix, example1Query)
    /\ HasPrefix(responses[3], AssistantPrefix)
    /\ HasPrefix(responses[4], UserPrefix)
    /\ HasPrefix(responses[5], AssistantPrefix)

\* C30: right after an event that appends Turns the viewport is scrolled
\* to the bottom of its content, whatever the scroll position was.
C30_AppendScrollsToBottom ==
    [][\A msg \in SendKeys \cup ExampleKeys :
         (Step(msg) /\ Len(responses') > Len(responses))
            => viewport'.YOffset =
                 Max(0, LineCount(viewport'.content) - viewport'.Height)]_vars

\* a Send has left the viewport scrolled down to the last page
C30_Witness ==
    /\ matched = "send"
    /\ ready
    /\ viewport.YOffset > 0
    /\ viewport.YOffset = LineCount(viewport.content) - viewport.Height

\* C31: a key event that matches no Action leaves the transcript, the
\* viewport content and ready unchanged.
C31_EditingKeepsTranscript ==
    [][\A msg \in EditKeys :
         Step(msg) => /\ responses' = responses
                      /\ viewport'.content = viewport.content
                      /\ ready' = ready]_vars

\* two characters were typed in one key event after a query was answered
C31_Witness ==
    /\ matched = "none"
    /\ textarea.value = <<"p","v">>
    /\ Len(responses) = 3
    /\ ready

\* C32: a Clear key event leaves the Input Buffer and ready unchanged (and
\* the recorded size and the environment); it changes only the transcript
\* and the viewport content.
C32_ClearKeepsInput ==
    [][\A msg \in ClearKeys :
         Step(msg) => /\ textarea' = textarea
                      /\ ready' = ready
                      /\ width' = width /\ height' = height
                      /\ environment' = environment
                      /\ viewport'.Width = viewport.Width
                      /\ viewport'.Height = viewport.Height]_vars

\* a Clear has run with a typed character in the Input Buffer
C32_Witness ==
    /\ matched = "clear"
    /\ textarea.value = <<"d">>
    /\ ready
    /\ responses = <<clearedMessage>>

\* the events that are neither key events nor resize events: the blink
\* tick, a message Update has no case for, and the two messages of the
\* textarea's Paste command
TickMsgs == {BlinkMsg, UnexpectedMsg}
NonKeyMsgs == TickMsgs \cup PasteMsgs \cup {PasteErrMsg}

PastedInto(value, text) ==
    value \o SubSeq(text, 1, Min(Max(0, 500 - Len(value)), Len(text)))

frame == View(Model)

\* the parts of the frame in their order
FrameParts == [i \in 1..Len(frame) |-> frame[i].part]

\* an event other than Quit has been processed
EventProcessed == cmd \notin {"Blink", "Quit"}

\* C34 as stated: after every processed event other than Quit, not ready or
\* ready, the frame is the title bar, the bordered viewport, the bordered
\* Input Buffer and the help line, in this order.
C34_FrameAlwaysFull ==
    EventProcessed => FrameParts = <<"title", "viewport", "textarea", "help">>

\* C34: after every processed event other than Quit the frame is, when
\* ready, the title bar, the bordered viewport, the bordered Input Buffer
\* and the help line in this order and, when not ready, the text Loading...
C34_FrameWhenReady ==
    EventProcessed =>
        IF ready
        THEN /\ FrameParts = <<"title", "viewport", "textarea", "help">>
             /\ frame[1].text = titleText
             /\ frame[2].border /\ frame[3].border
        ELSE frame = <<[part |-> "text", text |-> loadingText]>>

\* a query was answered in a sized terminal and the frame has four parts
C34_Witness ==
    /\ ready
    /\ cmd = "nil"
    /\ matched = "send"
    /\ Len(frame) = 4
    /\ frame[4].part = "help"

\* C35 as stated: while not ready, key events other than Quit change
\* neither the transcript nor the Input Buffer.
C35_NoInputBeforeReady ==
    [][\A msg \in AllKeys \ QuitKeys :
         (~ready /\ Step(msg)) => /\ responses' = responses
                                  /\ textarea'.value = textarea.value]_vars

\* C36 as stated: the transcript and the viewport content after a Clear are
\* those of a newly constructed session.
C36_ClearRestoresWelcome ==
    [][\A msg \in ClearKeys :
         Step(msg) =>
           /\ responses' = NewAssistantModel(environment).responses
           /\ viewport'.content =
                 NewAssistantModel(environment).viewport.content]_vars

\* C36: after a Clear the single Turn of the transcript, and the viewport
\* content, is the reset Turn "Chat cleared. How can I help you?", which is
\* not the welcome Turn of a newly constructed session.
C36_ClearLeavesResetTurn ==
    [][\A msg \in ClearKeys :
         Step(msg) =>
           /\ responses' = <<clearedMessage>>
           /\ viewport'.content = clearedMessage
           /\ responses' # NewAssistantModel(environment).responses]_vars

\* a Clear has run: the viewport shows the reset Turn
C36_Witness ==
    /\ matched = "clear"
    /\ responses = <<clearedMessage>>
    /\ viewport.content = clearedMessage
    /\ viewport.lines = 1

\* C37: no event sets ready back to false.
C37_ReadyMonotonic == [][ready => ready']_vars

\* ready after a first resize to 80x24, still ready after a resize to
\* 100x30, a query and typing
C37_Witness ==
    /\ ready
    /\ viewport.Width = 76
    /\ width = 100
    /\ Len(responses) = 3
    /\ textarea.value # <<>>

\* C38: in every state a Clear leaves the one reset Turn as transcript and
\* viewport content, and a second Clear right after it leaves the same.
C38_ClearIdempotent ==
    Running =>
      \A msg \in ClearKeys :
        \E once \in {Update(Model, msg).model} :
        \E twice \in {Update(once, msg).model} :
           /\ once.responses = <<clearedMessage>>
           /\ once.viewport.content = clearedMessage
           /\ twice.responses = once.responses
           /\ twice.viewport.content = once.viewport.content

\* a Clear has run on a longer transcript and one more would change nothing
C38_Witness ==
    /\ matched = "clear"
    /\ ~hist.sendOnly
    /\ \A msg \in ClearKeys : Update(Model, msg).model.responses = responses

\* C39 as stated: a key event that matches no Action leaves the viewport
\* scroll offset unchanged.
C39_TypingKeepsScroll ==
    [][\A msg \in EditKeys :
         Step(msg) => viewport'.YOffset = viewport.YOffset]_vars
====
